---- MODULE Spec2Model ----
(***************************************************************************)
(* Model of the etl-processor dimensional modelling pipeline:              *)
(*   backend/sql_analyzer.py          (SQLAnalyzer)                        *)
(*   backend/ai_dimension_classifier.py (AIDimensionClassifier)            *)
(*   backend/dimensional_modeling.py  (DimensionalModelingEngine)          *)
(* Column and table names are strings; Python's substring test, lower()    *)
(* and upper() are computed character by character.  Confidences are in    *)
(* hundredths (85 stands for 0.85).                                        *)
(***************************************************************************)
EXTENDS Integers, Sequences, FiniteSets, TLC

(***************************************************************************)
(* Bounds of the explored inputs.                                          *)
(***************************************************************************)
\* number of CREATE TABLE statements in one SQL text
MaxTables == 2
\* number of objects in the JSON array the classification service returns
MaxAIItems == 2

(***************************************************************************)
(* Python string primitives.                                               *)
(***************************************************************************)
\* Python: w in s
Contains(s, w) ==
    \E i \in 1..(Len(s) - Len(w) + 1) : SubSeq(s, i, i + Len(w) - 1) = w

\* Python: any(word in s for word in words)
AnyIn(s, words) == \E w \in words : Contains(s, w)

UpperToLower ==
    [c \in {"A","B","C","D","E","F","G","H","I","J","K","L","M",
            "N","O","P","Q","R","S","T","U","V","W","X","Y","Z"} |->
       CASE c = "A" -> "a" [] c = "B" -> "b" [] c = "C" -> "c" [] c = "D" -> "d"
         [] c = "E" -> "e" [] c = "F" -> "f" [] c = "G" -> "g" [] c = "H" -> "h"
         [] c = "I" -> "i" [] c = "J" -> "j" [] c = "K" -> "k" [] c = "L" -> "l"
         [] c = "M" -> "m" [] c = "N" -> "n" [] c = "O" -> "o" [] c = "P" -> "p"
         [] c = "Q" -> "q" [] c = "R" -> "r" [] c = "S" -> "s" [] c = "T" -> "t"
         [] c = "U" -> "u" [] c = "V" -> "v" [] c = "W" -> "w" [] c = "X" -> "x"
         [] c = "Y" -> "y" [] c = "Z" -> "z"]

\* the upper-case or the lower-case form of the character c
MapChar(c, upper) ==
    IF upper
    THEN (IF \E u \in DOMAIN UpperToLower : UpperToLower[u] = c
          THEN CHOOSE u \in DOMAIN UpperToLower : UpperToLower[u] = c
          ELSE c)
    ELSE (IF c \in DOMAIN UpperToLower THEN UpperToLower[c] ELSE c)

RECURSIVE MapChars(_, _, _)
MapChars(s, i, upper) ==
    IF i > Len(s) THEN ""
    ELSE MapChar(SubSeq(s, i, i), upper) \o MapChars(s, i + 1, upper)

\* Python: s.lower()
Lower(s) == MapChars(s, 1, FALSE)

\* Python None where a string is expected (no column or table has this name)
None == "<None>"

(***************************************************************************)
(* SQLAnalyzer (backend/sql_analyzer.py).                                  *)
(***************************************************************************)
\* re.search over self.date_patterns
MatchesDatePatterns(s) ==
    \/ AnyIn(s, {"date", "time", "timestamp", "datetime"})
    \/ AnyIn(s, {"data", "hora", "tempo"})
    \/ \E w \in {"created", "updated", "modified"} :
         \E i \in 1..(Len(s) - Len(w) + 1) :
            /\ SubSeq(s, i, i + Len(w) - 1) = w
            /\ Contains(SubSeq(s, i + Len(w), Len(s)), "at")

\* re.search over self.dimension_patterns
MatchesDimensionPatterns(s) ==
    AnyIn(s, {"name", "nome", "description", "descricao", "type", "tipo",
              "category", "categoria",
              "status", "estado", "situacao", "codigo", "code",
              "cidade", "city", "state", "pais", "country",
              "cpf", "email", "telefone", "phone", "pessoa", "person",
              "bloco", "block", "apartamento", "apartment", "local", "location",
              "veiculo", "vehicle", "placa", "plate", "carro", "car",
              "motivo", "reason", "observacao", "observation", "comment",
              "visita", "visit", "tipo_visita", "visit_type"})

\* re.search over self.fact_patterns
MatchesFactPatterns(s) ==
    AnyIn(s, {"valor", "value", "amount", "total", "sum", "count", "qty",
              "quantity",
              "preco", "price", "cost", "custo", "receita", "revenue",
              "vendas", "sales", "compras", "purchases",
              "entrada", "saida", "visit", "access", "evento", "event"})

classify_column_type(column_name, data_type) ==
    LET data_type_lower == Lower(data_type)
        column_name_lower == Lower(column_name)
    IN  IF AnyIn(data_type_lower, {"int", "decimal", "numeric", "float",
                                   "double", "real", "money"})
        THEN "numeric"
        ELSE IF AnyIn(data_type_lower, {"date", "time", "timestamp", "datetime"})
        THEN "date"
        ELSE IF AnyIn(data_type_lower, {"bool", "bit"})
        THEN "boolean"
        ELSE IF MatchesDatePatterns(column_name_lower)
        THEN "date"
        ELSE "text"

determine_dimensional_role(column_name, data_type, column_type) ==
    LET n == Lower(column_name)
        isKey == Contains(n, "id") \/ Contains(n, "key")
    IN  IF column_type = "date" \/ MatchesDatePatterns(n)
        THEN "time_dimension"
        ELSE IF column_type = "numeric" /\ MatchesFactPatterns(n)
        THEN "fact_measure"
        ELSE IF column_type = "numeric" /\ isKey
        THEN "dimension_key"
        ELSE IF column_type # "numeric" /\ MatchesFactPatterns(n)
        THEN "fact_measure"
        ELSE IF MatchesDimensionPatterns(n)
        THEN "dimension_attribute"
        ELSE IF isKey
        THEN "dimension_key"
        ELSE IF column_type = "text"
        THEN "dimension_attribute"
        ELSE "unknown"

\* A column line of a CREATE TABLE body: name, type token, and whether the
\* line carries the words PRIMARY KEY.  The result is a sequence holding the
\* ColumnInfo, or the empty sequence where the code returns None.
parse_column_definition(column_def) ==
    IF column_def.primary_key
    THEN <<>>
    ELSE LET data_type == MapChars(column_def.data_type, 1, TRUE)
             column_type == classify_column_type(column_def.name, data_type)
         IN  << [name |-> column_def.name,
                 data_type |-> data_type,
                 column_type |-> column_type,
                 is_primary_key |-> column_def.primary_key,
                 dimensional_role |->
                     determine_dimensional_role(column_def.name, data_type,
                                                column_type)] >>

RECURSIVE ParseColumns(_)
ParseColumns(defs) ==
    IF defs = <<>> THEN <<>>
    ELSE parse_column_definition(Head(defs)) \o ParseColumns(Tail(defs))

\* Python: [f(x) for x in seq if p(x)]
RECURSIVE SelectNames(_, _)
SelectNames(columns, roles) ==
    IF columns = <<>> THEN <<>>
    ELSE (IF Head(columns).dimensional_role \in roles
          THEN <<Head(columns).name>> ELSE <<>>)
         \o SelectNames(Tail(columns), roles)

RECURSIVE PrimaryKeyNames(_)
PrimaryKeyNames(columns) ==
    IF columns = <<>> THEN <<>>
    ELSE (IF Head(columns).is_primary_key THEN <<Head(columns).name>> ELSE <<>>)
         \o PrimaryKeyNames(Tail(columns))

analyze_create_table(statement) ==
    LET columns == ParseColumns(statement.column_defs)
    IN  [name |-> statement.name,
         columns |-> columns,
         primary_keys |-> PrimaryKeyNames(columns)]

analyze_table_for_dimensions(table_info) ==
    LET measures == SelectNames(table_info.columns, {"fact_measure"})
        dimension_keys == SelectNames(table_info.columns, {"dimension_key"})
        attributes == SelectNames(table_info.columns, {"dimension_attribute"})
    IN  [is_fact_candidate |-> Len(measures) > 0 /\ Len(dimension_keys) > 0,
         is_dimension_candidate |-> Len(attributes) > 0 /\ Len(measures) = 0,
         measures |-> measures,
         dimension_keys |-> dimension_keys,
         attributes |-> attributes,
         key_column |-> IF table_info.primary_keys # <<>>
                        THEN table_info.primary_keys[1] ELSE None]

\* self.tables[table_info.name] = table_info on an insertion-ordered dict
DictSet(dict, table_info) ==
    IF \E i \in 1..Len(dict) : dict[i].name = table_info.name
    THEN [i \in 1..Len(dict) |->
            IF dict[i].name = table_info.name THEN table_info ELSE dict[i]]
    ELSE Append(dict, table_info)

RECURSIVE FactCandidates(_)
FactCandidates(dict) ==
    IF dict = <<>> THEN <<>>
    ELSE LET a == analyze_table_for_dimensions(Head(dict))
         IN  (IF a.is_fact_candidate
              THEN << [table_name |-> Head(dict).name,
                       measures |-> a.measures,
                       dimension_keys |-> a.dimension_keys] >>
              ELSE <<>>) \o FactCandidates(Tail(dict))

RECURSIVE DimensionCandidates(_)
DimensionCandidates(dict) ==
    IF dict = <<>> THEN <<>>
    ELSE LET a == analyze_table_for_dimensions(Head(dict))
         IN  (IF a.is_dimension_candidate
              THEN << [table_name |-> Head(dict).name,
                       attributes |-> a.attributes,
                       key_column |-> a.key_column] >>
              ELSE <<>>) \o DimensionCandidates(Tail(dict))

perform_dimensional_analysis(dict) ==
    [fact_candidates |-> FactCandidates(dict),
     dimension_candidates |-> DimensionCandidates(dict)]

(***************************************************************************)
(* Inputs: the CREATE TABLE statements an SQL text is made of.             *)
(***************************************************************************)
ColumnDef(name, data_type, primary_key) ==
    [name |-> name, data_type |-> data_type, primary_key |-> primary_key]

Catalog ==
    { [name |-> "vendas",
       column_defs |-> << ColumnDef("nome", "varchar", FALSE),
                          ColumnDef("data_venda", "date", FALSE),
                          ColumnDef("valor", "decimal", FALSE),
                          ColumnDef("quantidade", "int", FALSE) >>],
      [name |-> "pedidos",
       column_defs |-> << ColumnDef("nome", "varchar", FALSE),
                          ColumnDef("data_venda", "date", FALSE),
                          ColumnDef("valor", "numeric", FALSE),
                          ColumnDef("quantidade", "int", FALSE) >>],
      [name |-> "clientes",
       column_defs |-> << ColumnDef("id", "int", TRUE),
                          ColumnDef("Nome", "varchar", FALSE),
                          ColumnDef("cidade", "varchar", FALSE) >>],
      [name |-> "precos",
       column_defs |-> << ColumnDef("valor", "decimal", FALSE),
                          ColumnDef("custo", "float", FALSE) >>],
      [name |-> "update_log",
       column_defs |-> << ColumnDef("descricao", "text", FALSE) >>] }

SqlTexts == UNION { [1..n -> Catalog] : n \in 0..MaxTables }

\* analyze_create_table of every statement of the catalog, computed once
AnalyzedCatalog == [statement \in Catalog |-> analyze_create_table(statement)]

RECURSIVE StoreTables(_, _)
StoreTables(dict, statements) ==
    IF statements = <<>> THEN dict
    ELSE StoreTables(DictSet(dict, AnalyzedCatalog[Head(statements)]),
                     Tail(statements))

\* the analysis result of parse_sql over the CREATE TABLE statements of one
\* SQL text, where stored is self.tables after the loop over the statements
parse_sql(stored, statements) ==
    [tables |-> [i \in 1..Len(statements) |-> AnalyzedCatalog[statements[i]]],
     dimensional_analysis |-> perform_dimensional_analysis(stored)]

(***************************************************************************)
(* AIDimensionClassifier (backend/ai_dimension_classifier.py).             *)
(***************************************************************************)
\* timeout=30 of requests.post, in seconds
RequestTimeout == 30

RequiredFields ==
    {"column_name", "dimension_type", "dimensional_role", "confidence",
     "reasoning"}

DimensionClassification(name, dimension_type, role, confidence, reasoning) ==
    [column_name |-> name,
     dimension_type |-> dimension_type,
     dimensional_role |-> role,
     confidence |-> confidence,
     reasoning |-> reasoning]

\* the body of the loop of _fallback_classification for one column
FallbackOne(col) ==
    LET col_name == Lower(col.name)
        data_type == MapChars(col.data_type, 1, TRUE)
        C(t, r, c) ==
            DimensionClassification(col.name, t, r, c,
                                    "Fallback rule-based classification")
    IN  IF /\ AnyIn(col_name, {"id", "key", "codigo", "code"})
           /\ AnyIn(col_name, {"venda", "sale", "transacao", "transaction"})
        THEN C("transaction", "dimension_key", 85)
        ELSE IF AnyIn(col_name, {"data", "date", "horario", "time", "entrada",
                                 "saida"})
        THEN C("time", "time_dimension", 90)
        ELSE IF AnyIn(col_name, {"produto", "product", "item", "servico",
                                 "service"})
        THEN C("product", "dimension_attribute", 80)
        ELSE IF AnyIn(col_name, {"cliente", "customer", "nome", "name", "cpf",
                                 "email", "telefone", "phone"})
        THEN C("customer", "dimension_attribute", 80)
        ELSE IF AnyIn(col_name, {"categoria", "category", "tipo", "type",
                                 "classe", "class"})
        THEN C("product", "dimension_attribute", 75)
        ELSE IF /\ AnyIn(col_name, {"quantidade", "qty", "qtd", "volume"})
                /\ (Contains(data_type, "INT") \/ Contains(data_type, "DECIMAL"))
        THEN C("transaction", "fact_measure", 85)
        ELSE IF /\ AnyIn(col_name, {"valor", "preco", "price", "total",
                                    "amount", "custo", "cost"})
                /\ (Contains(data_type, "DECIMAL") \/ Contains(data_type, "FLOAT"))
        THEN C("transaction", "fact_measure", 90)
        ELSE IF AnyIn(col_name, {"vendedor", "seller", "funcionario",
                                 "employee", "usuario", "user"})
        THEN C("employee", "dimension_attribute", 75)
        ELSE IF AnyIn(col_name, {"regiao", "region", "estado", "state",
                                 "cidade", "city", "local", "location"})
        THEN C("location", "dimension_attribute", 80)
        ELSE IF AnyIn(col_name, {"bloco", "block", "apartamento", "apartment"})
        THEN C("location", "dimension_attribute", 80)
        ELSE IF AnyIn(col_name, {"veiculo", "vehicle", "placa", "plate",
                                 "carro", "car"})
        THEN C("vehicle", "dimension_attribute", 80)
        ELSE IF AnyIn(col_name, {"visita", "visit", "acesso", "access"})
        THEN C("visit", "fact_measure", 75)
        ELSE IF AnyIn(col_name, {"motivo", "reason", "observacao",
                                 "observation", "comment"})
        THEN C("activity", "dimension_attribute", 70)
        ELSE C("other", "dimension_attribute", 60)

\* gives every column the classification of the first column
fallback_classification_first(columns) ==
    [i \in 1..Len(columns) |-> FallbackOne(columns[1])]

fallback_classification(columns) ==
    [i \in 1..Len(columns) |-> FallbackOne(columns[i])]

\* _fallback_classification of the columns of every table of the catalog,
\* computed once
RuleBased ==
    [columns \in {AnalyzedCatalog[statement].columns : statement \in Catalog} |->
        fallback_classification(columns)]

\* What the HTTP exchange of _call_openrouter_api can produce.  kind is
\*   "network_error"  requests raises a RequestException
\*   "timeout"        no answer within RequestTimeout seconds
\*   "http_error"     status code other than 200 (raise_for_status)
\*   "body_not_json"  response.json() raises
\*   "no_choices" / "empty_choices"  JSON body without usable "choices"
\*   "no_array"       message content without '[' or ']'
\*   "invalid_json"   json.loads of the bracketed content raises
\*   "array"          the content holds a JSON array, items
RaisingKinds == {"network_error", "timeout", "http_error", "body_not_json"}

UnparsableKinds == {"no_choices", "empty_choices", "no_array", "invalid_json"}

\* the result of a call that may raise: the value, or raised
Raise == [raised |-> TRUE, value |-> <<>>]

Return(v) == [raised |-> FALSE, value |-> v]

call_openrouter_api(exchange) ==
    IF exchange.kind \in RaisingKinds THEN Raise ELSE Return(exchange)

\* item["f"] raises KeyError on a missing field; float(item["confidence"])
\* raises ValueError on a value that is not a number
ItemRaises(item) ==
    \/ \E f \in RequiredFields : f \notin DOMAIN item
    \/ ~item.confidence.numeric

ItemClassification(item) ==
    DimensionClassification(item.column_name, item.dimension_type,
                            item.dimensional_role, item.confidence.value,
                            item.reasoning)

\* keeps the entries built before and after an entry that raises
parse_ai_response_partial(response, columns) ==
    IF response.kind \in UnparsableKinds
    THEN RuleBased[columns]
    ELSE LET good == SelectSeq(response.items, LAMBDA item : ~ItemRaises(item))
         IN  [i \in 1..Len(good) |-> ItemClassification(good[i])]

parse_ai_response(response, columns) ==
    IF response.kind \in UnparsableKinds
    THEN RuleBased[columns]
    ELSE IF \E i \in 1..Len(response.items) : ItemRaises(response.items[i])
    THEN RuleBased[columns]
    ELSE [i \in 1..Len(response.items) |->
             ItemClassification(response.items[i])]

\* classify_table_dimensions with the exchange its HTTP call ends in
classify_table_dimensions(isEnabled, columns, exchange) ==
    IF ~isEnabled
    THEN RuleBased[columns]
    ELSE LET response == call_openrouter_api(exchange)
         IN  IF response.raised
             THEN RuleBased[columns]
             ELSE parse_ai_response(response.value, columns)

(***************************************************************************)
(* DimensionalModelingEngine (backend/dimensional_modeling.py).            *)
(* The description, grain and created_at texts of the records are left     *)
(* out.                                                                    *)
(***************************************************************************)
FactTable(name, source_table, measures, dimension_keys) ==
    [name |-> name,
     source_table |-> source_table,
     measures |-> measures,
     dimension_keys |-> dimension_keys]

DimensionTable(name, source_table, surrogate_key, natural_key, attributes) ==
    [name |-> name,
     source_table |-> source_table,
     surrogate_key |-> surrogate_key,
     natural_key |-> natural_key,
     attributes |-> attributes,
     scd_type |-> 1]

create_time_dimension ==
    DimensionTable("dim_date", "generated", "date_sk", "date_key",
                   << "date_key", "full_date", "day_of_week", "day_name",
                      "day_of_month", "day_of_year", "week_of_year",
                      "month_number", "month_name", "quarter", "year",
                      "is_weekend", "is_holiday" >>)

is_time_dimension(dimension) ==
    \/ Contains(Lower(dimension.name), "date")
    \/ Contains(Lower(dimension.name), "time")

\* _is_time_dimension of the dimension tables named after the catalog's
\* tables, computed once
IsTimeDimensionName ==
    [name \in {"dim_" \o statement.name : statement \in Catalog} |->
        is_time_dimension([name |-> name])]

\* relates the fact table's column to the dimension's natural key
create_relationships_natural(fact_table, dimension_tables) ==
    [i \in 1..Len(dimension_tables) |->
        [from_table |-> fact_table.name,
         from_column |-> dimension_tables[i].surrogate_key,
         to_table |-> dimension_tables[i].name,
         to_column |-> dimension_tables[i].natural_key,
         relationship_type |-> "many_to_one"]]

create_relationships(fact_table, dimension_tables) ==
    [i \in 1..Len(dimension_tables) |->
        [from_table |-> fact_table.name,
         from_column |-> dimension_tables[i].surrogate_key,
         to_table |-> dimension_tables[i].name,
         to_column |-> dimension_tables[i].surrogate_key,
         relationship_type |-> "many_to_one"]]

StarSchema(fact_table, dimension_tables, relationships, source_tables, approach) ==
    [kind |-> "schema",
     fact_table |-> fact_table,
     dimension_tables |-> dimension_tables,
     relationships |-> relationships,
     metadata |-> [source_tables |-> source_tables,
                   modeling_approach |-> approach]]

\* create_dimensional_model's {"error": ...} when _generate_star_schema
\* returns None
NoSchema ==
    [kind |-> "error"]

\* the names of the classifications whose role is in roles, in order
RECURSIVE ClassifiedNames(_, _)
ClassifiedNames(classifications, roles) ==
    IF classifications = <<>> THEN <<>>
    ELSE (IF Head(classifications).dimensional_role \in roles
          THEN <<Head(classifications).column_name>> ELSE <<>>)
         \o ClassifiedNames(Tail(classifications), roles)

\* dimension_attributes[dim_type].append(col_name) on an insertion-ordered
\* dict, kept as a sequence of (dim_type, attributes) entries
AddAttribute(groups, dim_type, col_name) ==
    IF \E i \in 1..Len(groups) : groups[i].dim_type = dim_type
    THEN [i \in 1..Len(groups) |->
            IF groups[i].dim_type = dim_type
            THEN [groups[i] EXCEPT !.attributes = Append(@, col_name)]
            ELSE groups[i]]
    ELSE Append(groups, [dim_type |-> dim_type, attributes |-> <<col_name>>])

RECURSIVE DimensionAttributes(_, _)
DimensionAttributes(classifications, groups) ==
    IF classifications = <<>> THEN groups
    ELSE LET c == Head(classifications)
         IN  DimensionAttributes(
                 Tail(classifications),
                 IF c.dimensional_role \in {"dimension_attribute", "dimension_key"}
                 THEN AddAttribute(groups, c.dimension_type, c.column_name)
                 ELSE groups)

\* leaves the fact table without the implicit counter
SingleTableMeasures_explicit(classifications) ==
    ClassifiedNames(classifications, {"fact_measure"})

\* the measures of the fact table of the single-table path
SingleTableMeasures(classifications) ==
    LET measures == ClassifiedNames(classifications, {"fact_measure"})
    IN  IF measures = <<>> THEN <<"visit_count">> ELSE measures

\* forgets the key of the generated time dimension
SingleTableDimensionKeys_nodate(groups) ==
    [i \in 1..Len(groups) |-> groups[i].dim_type \o "_sk"]

\* fact_table.dimension_keys of the single-table path: one key per entry of
\* dimension_attributes, then the key of the time dimension
SingleTableDimensionKeys(groups) ==
    Append([i \in 1..Len(groups) |-> groups[i].dim_type \o "_sk"], "date_sk")

\* the dimension table of one entry of dimension_attributes
GroupDimension(group, table_name) ==
    DimensionTable("dim_" \o group.dim_type, table_name,
                   group.dim_type \o "_sk", group.attributes[1],
                   group.attributes)

\* _denormalize_single_table, from the classifications of the table
denormalize_single_table(table_data, ai_classifications) ==
    LET table_name == table_data.name
        groups == DimensionAttributes(ai_classifications, <<>>)
        group_dimensions ==
            [i \in 1..Len(groups) |-> GroupDimension(groups[i], table_name)]
        dimension_tables == Append(group_dimensions, create_time_dimension)
        fact_table == FactTable("fact_" \o table_name, table_name,
                                SingleTableMeasures(ai_classifications),
                                SingleTableDimensionKeys(groups))
    IN  StarSchema(fact_table, dimension_tables,
                   create_relationships(fact_table, dimension_tables),
                   1, "denormalization")

create_fact_table(fact_candidate) ==
    FactTable("fact_" \o fact_candidate.table_name, fact_candidate.table_name,
              fact_candidate.measures, fact_candidate.dimension_keys)

\* the table of the loop of _identify_best_fact_candidate after the tables
\* from index i on, given the best so far (a sequence of at most one table)
RECURSIVE BestTable(_, _, _, _)
BestTable(tables, i, best_table, max_measures) ==
    IF i > Len(tables) THEN best_table
    ELSE LET n == Len(SelectNames(tables[i].columns, {"fact_measure"}))
         IN  IF n > max_measures
             THEN BestTable(tables, i + 1, <<tables[i]>>, n)
             ELSE BestTable(tables, i + 1, best_table, max_measures)

\* a sequence holding the fact table, or empty where the code returns None
identify_best_fact_candidate(tables) ==
    LET best == BestTable(tables, 1, <<>>, 0)
    IN  IF best = <<>> THEN <<>>
        ELSE << create_fact_table(
                  [table_name |-> best[1].name,
                   measures |-> SelectNames(best[1].columns, {"fact_measure"}),
                   dimension_keys |->
                       SelectNames(best[1].columns, {"dimension_key"})]) >>

\* a sequence holding the dimension table, or empty where the code returns None
create_dimension_table(dim_candidate) ==
    IF dim_candidate.attributes = <<>>
    THEN <<>>
    ELSE << DimensionTable(
              "dim_" \o dim_candidate.table_name,
              dim_candidate.table_name,
              dim_candidate.table_name \o "_sk",
              IF "key_column" \in DOMAIN dim_candidate
              THEN dim_candidate.key_column
              ELSE dim_candidate.attributes[1],
              dim_candidate.attributes) >>

RECURSIVE CandidateDimensions(_)
CandidateDimensions(dimension_candidates) ==
    IF dimension_candidates = <<>> THEN <<>>
    ELSE create_dimension_table(Head(dimension_candidates))
         \o CandidateDimensions(Tail(dimension_candidates))

\* the fact table of the multi-table path: a sequence holding it, or empty
\* where _generate_star_schema goes to the single-table path instead
MultiTableFact(analysis) ==
    IF analysis.dimensional_analysis.fact_candidates = <<>>
    THEN identify_best_fact_candidate(analysis.tables)
    ELSE << create_fact_table(analysis.dimensional_analysis.fact_candidates[1]) >>

\* _generate_star_schema calls _denormalize_single_table (and so the
\* classifier) on tables[0]
TakesSingleTablePath(analysis) ==
    /\ analysis.tables # <<>>
    /\ \/ Len(analysis.tables) = 1
       \/ MultiTableFact(analysis) = <<>>

\* the multi-table branch of _generate_star_schema
multi_table_schema(analysis) ==
    LET fact_table == MultiTableFact(analysis)[1]
        candidates ==
            CandidateDimensions(analysis.dimensional_analysis.dimension_candidates)
        dimension_tables ==
            IF \E i \in 1..Len(candidates) : IsTimeDimensionName[candidates[i].name]
            THEN candidates
            ELSE Append(candidates, create_time_dimension)
    IN  StarSchema(fact_table, dimension_tables,
                   create_relationships(fact_table, dimension_tables),
                   Len(analysis.tables),
                   IF Len(analysis.tables) > 1 THEN "multi_table"
                   ELSE "single_table")

\* _generate_star_schema degrading to the last table instead of tables[0]
generate_star_schema_last(analysis, ai_classifications) ==
    IF analysis.tables = <<>>
    THEN NoSchema
    ELSE IF TakesSingleTablePath(analysis)
    THEN denormalize_single_table(analysis.tables[Len(analysis.tables)],
                                  ai_classifications)
    ELSE multi_table_schema(analysis)

\* _generate_star_schema, from the classifications of tables[0] that the
\* single-table path obtains
generate_star_schema(analysis, ai_classifications) ==
    IF analysis.tables = <<>>
    THEN NoSchema
    ELSE IF TakesSingleTablePath(analysis)
    THEN denormalize_single_table(analysis.tables[1], ai_classifications)
    ELSE multi_table_schema(analysis)

(***************************************************************************)
(* Inputs: the JSON objects the classification service answers with.      *)
(***************************************************************************)
Number(v) == [numeric |-> TRUE, value |-> v]

AIItem(column_name, dimensional_role, dimension_type, confidence) ==
    [column_name |-> column_name,
     dimensional_role |-> dimensional_role,
     dimension_type |-> dimension_type,
     confidence |-> confidence,
     reasoning |-> "ai"]

Exchange(kind, items) == [kind |-> kind, items |-> items]

\* the exchanges in which the service answers or the connection breaks
AnsweredExchanges ==
    LET \* the items of the array the service answers with
        AIItems ==
            { AIItem("nome", "dimension_attribute", "customer", Number(95)),
              AIItem("cidade", "dimension_attribute", "date", Number(90)),
              AIItem("valor", "fact_measure", "transaction", Number(95)),
              AIItem("nome", "dimension_key", "time", Number(70)),
              AIItem("data_venda", "time_dimension", "time", Number(99)),
              AIItem("quantidade", "unknown", "other", Number(10)),
              AIItem("valor", "fact_measure", "transaction",
                     [numeric |-> FALSE, value |-> 0]),
              [column_name |-> "cidade",
               dimensional_role |-> "dimension_attribute",
               dimension_type |-> "location",
               confidence |-> Number(80)] }
    IN
    { Exchange(k, <<>>) : k \in (RaisingKinds \ {"timeout"}) \cup UnparsableKinds }
    \cup { Exchange("array", items) :
             items \in UNION { [1..n -> AIItems] : n \in 0..MaxAIItems } }

NoExchange == Exchange("none", <<>>)

NotClassified == [called |-> FALSE, columns |-> <<>>, result |-> <<>>]

Pending == [kind |-> "pending"]

(***************************************************************************)
(* StarSchemaGenerator (backend/star_schema_generator.py).                 *)
(***************************************************************************)
\* _infer_attribute_type: the first rule whose keyword the lower-cased name
\* contains
infer_attribute_type(attribute_name) ==
    LET attr_lower == Lower(attribute_name)
    IN  IF AnyIn(attr_lower, {"date", "time", "created", "updated"})
        THEN "datetime"
        ELSE IF AnyIn(attr_lower, {"id", "key", "number"})
        THEN "bigint"
        ELSE IF AnyIn(attr_lower, {"amount", "price", "cost", "value"})
        THEN "decimal"
        ELSE IF AnyIn(attr_lower, {"flag", "is_", "has_"})
        THEN "boolean"
        ELSE IF AnyIn(attr_lower, {"description", "comment", "note"})
        THEN "text"
        ELSE "string"

\* str.strip(chars): the characters of the set chars removed from both ends
RECURSIVE StripChars(_, _)
StripChars(s, chars) ==
    IF Len(s) = 0 THEN s
    ELSE IF SubSeq(s, 1, 1) \in chars
    THEN StripChars(SubSeq(s, 2, Len(s)), chars)
    ELSE IF SubSeq(s, Len(s), Len(s)) \in chars
    THEN StripChars(SubSeq(s, 1, Len(s) - 1), chars)
    ELSE s

\* str.strip()
Strip(s) == StripChars(s, {" ", "\t", "\n", "\r"})

\* str.split(sep) for a one-character separator
RECURSIVE Split(_, _)
Split(s, sep) ==
    IF \E i \in 1..Len(s) : SubSeq(s, i, i) = sep
    THEN LET i == CHOOSE k \in 1..Len(s) :
                     /\ SubSeq(s, k, k) = sep
                     /\ \A j \in 1..(k - 1) : SubSeq(s, j, j) # sep
         IN  << SubSeq(s, 1, i - 1) >> \o Split(SubSeq(s, i + 1, Len(s)), sep)
    ELSE << s >>

\* sep.join(parts)
RECURSIVE Join(_, _)
Join(parts, sep) ==
    IF parts = <<>> THEN ""
    ELSE IF Len(parts) = 1 THEN parts[1]
    ELSE parts[1] \o sep \o Join(Tail(parts), sep)

\* the longest prefix of s without the character c: what [^c]+ matches at
\* the start of s
UpTo(s, c) ==
    IF \E i \in 1..Len(s) : SubSeq(s, i, i) = c
    THEN LET i == CHOOSE k \in 1..Len(s) :
                     /\ SubSeq(s, k, k) = c
                     /\ \A j \in 1..(k - 1) : SubSeq(s, j, j) # c
         IN  SubSeq(s, 1, i - 1)
    ELSE s

\* one turn of the loop of _parse_insert_values, at character i
ScanChar(values_str, i, st) ==
    LET char == SubSeq(values_str, i, i)
        add(text) == [st EXCEPT !.current_value = @ \o text]
    IN  IF st.escape_next
        THEN [add(char) EXCEPT !.escape_next = FALSE]
        ELSE IF char = "\\"
        THEN [add(char) EXCEPT !.escape_next = TRUE]
        ELSE IF char \in {"'", "\""} /\ ~st.in_quotes
        THEN [add(char) EXCEPT !.in_quotes = TRUE, !.quote_char = char]
        ELSE IF char = st.quote_char /\ st.in_quotes
        THEN IF i + 1 <= Len(values_str)
                /\ SubSeq(values_str, i + 1, i + 1) = st.quote_char
             THEN [add(char \o char) EXCEPT !.escape_next = TRUE]
             ELSE [add(char) EXCEPT !.in_quotes = FALSE, !.quote_char = None]
        ELSE IF char = "(" /\ ~st.in_quotes
        THEN [add(char) EXCEPT !.paren_count = @ + 1]
        ELSE IF char = ")" /\ ~st.in_quotes
        THEN [add(char) EXCEPT !.paren_count = @ - 1]
        ELSE IF char = "," /\ ~st.in_quotes /\ st.paren_count = 0
        THEN [st EXCEPT !.values = Append(@, Strip(st.current_value)),
                        !.current_value = ""]
        ELSE add(char)

RECURSIVE Scan(_, _, _)
Scan(values_str, i, st) ==
    IF i > Len(values_str) THEN st
    ELSE Scan(values_str, i + 1, ScanChar(values_str, i, st))

\* _parse_insert_values
parse_insert_values(values_str) ==
    LET start ==
            [values |-> <<>>, current_value |-> "", in_quotes |-> FALSE,
             quote_char |-> None, paren_count |-> 0, escape_next |-> FALSE]
        st == Scan(values_str, 1, start)
    IN  IF Strip(st.current_value) # ""
        THEN Append(st.values, Strip(st.current_value))
        ELSE st.values

\* Python dicts, in insertion order: sequences of [key, value] entries
DictHas(dict, key) == \E i \in 1..Len(dict) : dict[i].key = key

DictGet(dict, key) == dict[CHOOSE i \in 1..Len(dict) : dict[i].key = key].value

DictPut(dict, key, value) ==
    IF DictHas(dict, key)
    THEN [i \in 1..Len(dict) |->
            IF dict[i].key = key THEN [key |-> key, value |-> value]
            ELSE dict[i]]
    ELSE Append(dict, [key |-> key, value |-> value])

\* seq[:n]
Take(seq, n) == SubSeq(seq, 1, IF Len(seq) < n THEN Len(seq) ELSE n)

\* an INSERT statement of the original SQL: the table name, the text between
\* the parentheses of the column list, and the text after "VALUES (" up to
\* the parenthesis that closes the statement
InsertStatement(table, columns, rest) ==
    [table |-> table, columns |-> columns, rest |-> rest]

\* {col: [] for col in columns}
RECURSIVE EmptyColumns(_)
EmptyColumns(columns) ==
    IF columns = <<>> THEN <<>>
    ELSE DictPut(EmptyColumns(SubSeq(columns, 1, Len(columns) - 1)),
                 columns[Len(columns)], <<>>)

\* the loop "for i, value in enumerate(values)" of
\* _extract_real_data_from_sql from index i on; source_columns is
\* real_data[table_name], and the result is Raise on a KeyError
RECURSIVE MapValues(_, _, _, _)
MapValues(source_columns, columns, values, i) ==
    IF i > Len(values) THEN Return(source_columns)
    ELSE IF i > Len(columns)
    THEN MapValues(source_columns, columns, values, i + 1)
    ELSE IF values[i] = "" \/ Strip(values[i]) = ""
            \/ Lower(values[i]) \in {"null", "current_timestamp"}
    THEN MapValues(source_columns, columns, values, i + 1)
    ELSE IF ~DictHas(source_columns, columns[i])
    THEN Raise
    ELSE MapValues(
             DictPut(source_columns, columns[i],
                     Append(DictGet(source_columns, columns[i]),
                            StripChars(Strip(values[i]), {"'", "\""}))),
             columns, values, i + 1)

\* the loop over the matches of insert_pattern from statement i on
RECURSIVE ExtractFrom(_, _, _)
ExtractFrom(inserts, i, real_data) ==
    IF i > Len(inserts) THEN Return(real_data)
    ELSE LET table_name == Lower(inserts[i].table)
             parts == Split(inserts[i].columns, ",")
             columns == [c \in 1..Len(parts) |->
                            StripChars(Strip(parts[c]), {"\"", "[", "]"})]
             values_str == UpTo(inserts[i].rest, ")")
             values == parse_insert_values(values_str)
             known == IF DictHas(real_data, table_name) THEN real_data
                      ELSE DictPut(real_data, table_name,
                                   EmptyColumns(columns))
             mapped == MapValues(DictGet(known, table_name), columns,
                                 values, 1)
         IN  IF values_str = ""
             THEN ExtractFrom(inserts, i + 1, real_data)
             ELSE IF mapped.raised THEN Raise
             ELSE ExtractFrom(inserts, i + 1,
                              DictPut(known, table_name, mapped.value))

\* _extract_real_data_from_sql: Return of the dict table -> column -> values,
\* or Raise
extract_real_data_from_sql(inserts) == ExtractFrom(inserts, 1, <<>>)

\* name.replace('_', ' ').split()
NameParts(name) ==
    SelectSeq(Split(name, "_"), LAMBDA part : Strip(part) # "")

\* _are_similar_names
are_similar_names(name1, name2) ==
    \E i \in 1..Len(NameParts(name1)) : \E j \in 1..Len(NameParts(name2)) :
        \/ Contains(NameParts(name2)[j], NameParts(name1)[i])
        \/ Contains(NameParts(name1)[i], NameParts(name2)[j])

\* the values of a list without repetitions, in order of first occurrence
RECURSIVE Distinct(_)
Distinct(values) ==
    IF values = <<>> THEN <<>>
    ELSE LET rest == Distinct(SubSeq(values, 1, Len(values) - 1))
             last == values[Len(values)]
         IN  IF \E i \in 1..Len(rest) : rest[i] = last THEN rest
             ELSE Append(rest, last)

\* the orders in which a set of strings is iterated, which depend on the
\* hash seed of the process
HashSeeds == {"forward", "backward"}

\* [:20] of the unique values of a column
MaxUniqueValues == 20

\* list(set(values))[:20]
UniqueValues(values, hash_seed) ==
    LET distinct == Distinct(values)
        reversed ==
            [i \in 1..Len(distinct) |-> distinct[Len(distinct) + 1 - i]]
    IN  Take(IF hash_seed = "forward" THEN distinct ELSE reversed,
             MaxUniqueValues)

\* the first column of source_columns, from index i on, that is similar to
\* the attribute and has values: a sequence holding them, or empty
RECURSIVE SimilarColumn(_, _, _, _)
SimilarColumn(source_columns, attr_lower, i, hash_seed) ==
    IF i > Len(source_columns) THEN <<>>
    ELSE LET col_lower == Lower(source_columns[i].key)
             unique_values == UniqueValues(source_columns[i].value, hash_seed)
         IN  IF /\ \/ Contains(col_lower, attr_lower)
                   \/ Contains(attr_lower, col_lower)
                   \/ are_similar_names(attr_lower, col_lower)
                /\ unique_values # <<>>
             THEN << unique_values >>
             ELSE SimilarColumn(source_columns, attr_lower, i + 1, hash_seed)

\* the loop over dim_table.attributes of
\* _extract_dimension_values_from_real_data from attribute i on
RECURSIVE DimensionValues(_, _, _, _, _)
DimensionValues(dim_table, source_columns, i, dimension_values, hash_seed) ==
    IF i > Len(dim_table.attributes) THEN dimension_values
    ELSE LET attr == dim_table.attributes[i]
             attr_lower == Lower(attr)
             exact == UniqueValues(DictGet(source_columns, attr_lower),
                                   hash_seed)
             similar == SimilarColumn(source_columns, attr_lower, 1, hash_seed)
             found ==
                 IF attr = dim_table.surrogate_key THEN dimension_values
                 ELSE IF DictHas(source_columns, attr_lower)
                 THEN IF exact # <<>>
                      THEN DictPut(dimension_values, attr, exact)
                      ELSE dimension_values
                 ELSE IF similar # <<>>
                 THEN DictPut(dimension_values, attr, similar[1])
                 ELSE dimension_values
         IN  DimensionValues(dim_table, source_columns, i + 1, found,
                             hash_seed)

\* _extract_dimension_values_from_real_data
extract_dimension_values_from_real_data(dim_table, real_data, hash_seed) ==
    IF real_data = <<>> THEN <<>>
    ELSE LET named == IF dim_table.source_table # "generated"
                      THEN Lower(dim_table.source_table) ELSE None
             source_table == IF ~DictHas(real_data, named)
                             THEN real_data[1].key ELSE named
         IN  DimensionValues(dim_table, DictGet(real_data, source_table), 1,
                             <<>>, hash_seed)

Digits == {"0", "1", "2", "3", "4", "5", "6", "7", "8", "9"}

\* whether the try block of _generate_fact_real_data keeps real_value:
\* float(real_value) returns for a text with a point (an optional sign and
\* decimal digits around one point; exponents, inf and nan are not inputs
\* here), int(real_value) returns for a text without (an optional sign and
\* decimal digits)
ParsesAsNumber(real_value) ==
    LET u == IF Len(real_value) > 0 /\ SubSeq(real_value, 1, 1) \in {"+", "-"}
             THEN SubSeq(real_value, 2, Len(real_value)) ELSE real_value
    IN  IF Contains(real_value, ".")
        THEN /\ Cardinality({ i \in 1..Len(u) : SubSeq(u, i, i) = "." }) = 1
             /\ \E i \in 1..Len(u) : SubSeq(u, i, i) \in Digits
             /\ \A i \in 1..Len(u) : SubSeq(u, i, i) \in Digits \cup {"."}
        ELSE Len(u) > 0 /\ \A i \in 1..Len(u) : SubSeq(u, i, i) \in Digits

\* f"{n:0{width}d}" for n >= 0
RECURSIVE ZeroPad(_, _)
ZeroPad(text, width) ==
    IF Len(text) >= width THEN text ELSE ZeroPad("0" \o text, width)

\* [:20] of the combinations of attribute values
MaxCombinations == 20

\* len(list(itertools.product(*lists)))
RECURSIVE ProductSize(_)
ProductSize(lists) ==
    IF lists = <<>> THEN 1
    ELSE Len(Head(lists)) * ProductSize(Tail(lists))

\* list(itertools.product(*lists))[k], counting k from 0: the last list
\* varies fastest
Combination(lists, k) ==
    [j \in 1..Len(lists) |->
        lists[j][((k \div ProductSize(SubSeq(lists, j + 1, Len(lists))))
                  % Len(lists[j])) + 1]]

\* "".join(lines)
Lines(lines) == Join(lines, "")

Quoted(text) == "'" \o text \o "'"

\* _generate_dimension_real_data once real_values_for_dimension is extracted
dimension_real_data(dim_table, real_values_for_dimension) ==
    LET attribute_names ==
            SelectSeq(dim_table.attributes,
                      LAMBDA attr : attr # dim_table.surrogate_key)
        attribute_values ==
            [j \in 1..Len(attribute_names) |->
                IF DictHas(real_values_for_dimension, attribute_names[j])
                THEN DictGet(real_values_for_dimension, attribute_names[j])
                ELSE << "Unknown_" \o attribute_names[j] >>]
        size == ProductSize(attribute_values)
        count == IF size < MaxCombinations THEN size ELSE MaxCombinations
        columns == attribute_names \o << "created_at", "updated_at" >>
        insert(k) ==
            LET combination == Combination(attribute_values, k - 1)
                values == [j \in 1..Len(attribute_names) |->
                              Quoted(combination[j])]
                          \o << "CURRENT_TIMESTAMP", "CURRENT_TIMESTAMP" >>
            IN  "INSERT INTO " \o dim_table.name \o " ("
                \o Join(columns, ", ") \o ") VALUES ("
                \o Join(values, ", ") \o ");\n"
    IN  IF real_values_for_dimension = <<>>
        THEN "-- No real data available for " \o dim_table.name \o "\n"
        ELSE "-- Real data for " \o dim_table.name \o "\n"
             \o (IF attribute_values # <<>> THEN Lines([n \in 1..count |-> insert(n)])
                 ELSE "")

\* _generate_dimension_real_data
generate_dimension_real_data(dim_table, real_data, hash_seed) ==
    dimension_real_data(
        dim_table,
        extract_dimension_values_from_real_data(dim_table, real_data,
                                                hash_seed))

\* the loop over fact_table.measures that fills real_measures, from measure
\* i on
RECURSIVE RealMeasures(_, _, _, _)
RealMeasures(measures, source_columns, i, real_measures) ==
    IF i > Len(measures) THEN real_measures
    ELSE RealMeasures(measures, source_columns, i + 1,
             IF DictHas(source_columns, Lower(measures[i]))
             THEN DictPut(real_measures, measures[i],
                          DictGet(source_columns, Lower(measures[i])))
             ELSE real_measures)

\* the row limit of _generate_fact_real_data
MaxFactRows == 10

\* the length of the default record_count measure
DefaultCountRows == 5

\* _generate_fact_real_data
generate_fact_real_data(fact_table, dimension_tables, real_data) ==
    LET source_table == Lower(fact_table.source_table)
        found ==
            IF fact_table.source_table # "generated"
               /\ DictHas(real_data, source_table)
            THEN RealMeasures(fact_table.measures,
                              DictGet(real_data, source_table), 1, <<>>)
            ELSE <<>>
        real_measures ==
            IF found = <<>>
            THEN << [key |-> "record_count",
                     value |-> [i \in 1..DefaultCountRows |-> "1"]] >>
            ELSE found
        \* max(len(values) for values in real_measures.values())
        longest ==
            CHOOSE n \in { Len(real_measures[i].value) :
                              i \in 1..Len(real_measures) } :
                \A i \in 1..Len(real_measures) :
                    Len(real_measures[i].value) <= n
        num_records == IF longest < MaxFactRows THEN longest ELSE MaxFactRows
        columns ==
            [d \in 1..Len(dimension_tables) |->
                dimension_tables[d].surrogate_key]
            \o fact_table.measures \o << "created_at", "etl_batch_id" >>
        measure_value(measure, i) ==
            IF DictHas(real_measures, measure)
               /\ DictGet(real_measures, measure) # <<>>
            THEN LET list == DictGet(real_measures, measure)
                     real_value == list[(i % Len(list)) + 1]
                 IN  IF ParsesAsNumber(real_value) THEN real_value ELSE "1"
            ELSE "1"
        insert(row) ==
            LET i == row - 1
                values ==
                    [d \in 1..Len(dimension_tables) |-> ToString(i + 1)]
                    \o [m \in 1..Len(fact_table.measures) |->
                           measure_value(fact_table.measures[m], i)]
                    \o << "CURRENT_TIMESTAMP", Quoted(ZeroPad(ToString(i + 1), 6)) >>
            IN  "INSERT INTO " \o fact_table.name \o " ("
                \o Join(columns, ", ") \o ") VALUES ("
                \o Join(values, ", ") \o ");\n"
    IN  "-- Real data for " \o fact_table.name \o "\n"
        \o "-- Note: This uses real data extracted from the source\n\n"
        \o Lines([n \in 1..num_records |-> insert(n)])

\* The module random: its generator is seeded from the system when the
\* process starts and moves with every draw, so a call finds it in a state
\* rng that nothing in the call's arguments determines.  The k-th kind of
\* draw of a call in state rng is modelled as a fixed function of rng and k.
\* random.choice(list)
Choice(list, rng, k) == list[((rng + k) % Len(list)) + 1]

\* random.randint(low, high)
RandInt(low, high, rng, k) == low + ((rng * 37 + k * 11) % (high - low + 1))

\* str(round(random.uniform(low, high), 2)), the limits in hundredths
Uniform(low, high, rng, k) ==
    LET hundredths == low + ((rng * 7919 + k * 131) % (high - low + 1))
    IN  ToString(hundredths \div 100) \o "."
        \o (IF hundredths % 10 = 0 THEN ToString((hundredths % 100) \div 10)
            ELSE ZeroPad(ToString(hundredths % 100), 2))

Letters ==
    << "A", "B", "C", "D", "E", "F", "G", "H", "I", "J", "K", "L", "M",
       "N", "O", "P", "Q", "R", "S", "T", "U", "V", "W", "X", "Y", "Z" >>

\* generate_sample_value of _generate_dimension_sample_data, for an
\* attribute without real values; k tells the draws of the rows apart
generate_sample_value(attr_name, rng, k) ==
    LET attr_lower == Lower(attr_name)
    IN  IF AnyIn(attr_lower, {"name", "nome"})
        THEN Quoted(Choice(<< "João Silva", "Maria Santos", "Pedro Oliveira",
                              "Ana Costa", "Carlos Souza" >>, rng, k))
        ELSE IF AnyIn(attr_lower, {"email"})
        THEN Quoted("usuario" \o ToString(RandInt(1, 999, rng, k)) \o "@"
                    \o Choice(<< "gmail.com", "hotmail.com", "yahoo.com.br",
                                 "bol.com.br" >>, rng, k + 1))
        ELSE IF AnyIn(attr_lower, {"telefone", "phone"})
        THEN Quoted("(" \o ZeroPad(ToString(RandInt(11, 85, rng, k)), 2) \o ") "
                    \o ToString(RandInt(1000, 9999, rng, k + 1)) \o "-"
                    \o ToString(RandInt(1000, 9999, rng, k + 2)))
        ELSE IF AnyIn(attr_lower, {"cpf"})
        THEN Quoted(ToString(RandInt(100, 999, rng, k)) \o "."
                    \o ToString(RandInt(100, 999, rng, k + 1)) \o "."
                    \o ToString(RandInt(100, 999, rng, k + 2)) \o "-"
                    \o ToString(RandInt(10, 99, rng, k + 3)))
        ELSE IF AnyIn(attr_lower, {"tipo", "type", "categoria", "category"})
        THEN Quoted(Choice(<< "Tipo A", "Tipo B", "Tipo C", "Categoria 1",
                              "Categoria 2" >>, rng, k))
        ELSE IF AnyIn(attr_lower, {"bloco", "block"})
        THEN Quoted(Choice(<< "A", "B", "C", "D" >>, rng, k))
        ELSE IF AnyIn(attr_lower, {"apartamento", "apt", "numero", "number"})
        THEN Quoted(ToString(RandInt(1, 250, rng, k)))
        ELSE IF AnyIn(attr_lower, {"placa", "plate"})
        THEN Quoted(Choice(Letters, rng, k) \o Choice(Letters, rng, k + 1)
                    \o Choice(Letters, rng, k + 2) \o "-"
                    \o ToString(RandInt(1000, 9999, rng, k + 3)))
        ELSE IF AnyIn(attr_lower, {"motivo", "reason"})
        THEN Quoted(Choice(<< "Trabalho", "Visita", "Entrega", "Manutenção",
                              "Reunião" >>, rng, k))
        ELSE IF AnyIn(attr_lower, {"observacao", "observation", "comment"})
        THEN Quoted("Observação " \o ToString(RandInt(1, 100, rng, k)))
        ELSE Quoted(attr_name \o "_" \o ToString(RandInt(1, 100, rng, k)))

\* _generate_dimension_sample_data as generate_sample_dml calls it, with no
\* real data
generate_dimension_sample_data(dim_table, num_records, rng) ==
    LET attribute_names ==
            SelectSeq(dim_table.attributes,
                      LAMBDA attr : attr # dim_table.surrogate_key)
        columns ==
            attribute_names
            \o (IF dim_table.scd_type = 2
                THEN << "effective_date", "expiry_date", "is_current" >>
                ELSE <<>>)
            \o << "created_at", "updated_at" >>
        insert(i) ==
            LET values ==
                    [j \in 1..Len(attribute_names) |->
                        IF attribute_names[j] = dim_table.natural_key
                        THEN Quoted(dim_table.name \o "_" \o ZeroPad(ToString(i), 3))
                        ELSE generate_sample_value(attribute_names[j], rng,
                                                   i + j)]
                    \o (IF dim_table.scd_type = 2
                        THEN << "CURRENT_DATE", "NULL", "TRUE" >> ELSE <<>>)
                    \o << "CURRENT_TIMESTAMP", "CURRENT_TIMESTAMP" >>
            IN  "INSERT INTO " \o dim_table.name \o " ("
                \o Join(columns, ", ") \o ") VALUES ("
                \o Join(values, ", ") \o ");\n"
    IN  "-- Sample data for " \o dim_table.name \o "\n"
        \o Lines([n \in 1..num_records |-> insert(n)])

\* str(self._generate_synthetic_measure_value(measure_lower))
generate_synthetic_measure_value(measure_lower, rng, k) ==
    IF AnyIn(measure_lower, {"amount", "valor", "price", "preco"})
    THEN Uniform(1000, 1000000, rng, k)
    ELSE IF AnyIn(measure_lower, {"quantity", "qty", "quantidade"})
    THEN ToString(RandInt(1, 100, rng, k))
    ELSE IF AnyIn(measure_lower, {"count", "total", "sum"})
    THEN ToString(RandInt(1, 1000, rng, k))
    ELSE IF AnyIn(measure_lower, {"rate", "percent", "taxa"})
    THEN Uniform(0, 10000, rng, k)
    ELSE IF AnyIn(measure_lower, {"weight", "peso", "size", "tamanho"})
    THEN Uniform(10, 100000, rng, k)
    ELSE Uniform(100, 100000, rng, k)

\* the greatest surrogate key value _generate_fact_sample_data refers to
MaxSampleKey == 10

\* _generate_fact_sample_data as generate_sample_dml calls it, with no real
\* data
generate_fact_sample_data(fact_table, dimension_tables, num_records, rng) ==
    LET columns ==
            [d \in 1..Len(dimension_tables) |->
                dimension_tables[d].surrogate_key]
            \o fact_table.measures \o << "created_at", "etl_batch_id" >>
        insert(i) ==
            LET values ==
                    [d \in 1..Len(dimension_tables) |->
                        ToString(RandInt(1, IF num_records < MaxSampleKey
                                            THEN num_records
                                            ELSE MaxSampleKey, rng, i + d))]
                    \o [m \in 1..Len(fact_table.measures) |->
                           generate_synthetic_measure_value(
                               Lower(fact_table.measures[m]), rng, i + m)]
                    \o << "CURRENT_TIMESTAMP", Quoted(ZeroPad(ToString(i), 6)) >>
            IN  "INSERT INTO " \o fact_table.name \o " ("
                \o Join(columns, ", ") \o ") VALUES ("
                \o Join(values, ", ") \o ");\n"
    IN  "-- Sample data for " \o fact_table.name \o "\n"
        \o "-- Note: This assumes dimension tables have been populated with sample data\n\n"
        \o Lines([n \in 1..num_records |-> insert(n)])

\* str.replace(old, new), for a non-empty old
RECURSIVE Replace(_, _, _)
Replace(s, old, new) ==
    IF Len(s) < Len(old) THEN s
    ELSE IF SubSeq(s, 1, Len(old)) = old
    THEN new \o Replace(SubSeq(s, Len(old) + 1, Len(s)), old, new)
    ELSE SubSeq(s, 1, 1) \o Replace(SubSeq(s, 2, Len(s)), old, new)

\* _get_type_mappings, the entries the generator looks up
type_mappings ==
    [surrogate_key |-> "BIGSERIAL",
     natural_key |-> "VARCHAR(100)",
     string |-> "VARCHAR(255)",
     text |-> "TEXT",
     integer |-> "INTEGER",
     bigint |-> "BIGINT",
     decimal |-> "NUMERIC(18,2)",
     date |-> "DATE",
     datetime |-> "TIMESTAMP",
     timestamp |-> "TIMESTAMP WITH TIME ZONE",
     boolean |-> "BOOLEAN"]

\* _generate_dimension_table_ddl, without the two lines that quote the
\* description of the table
generate_dimension_table_ddl(dim_table) ==
    LET type_map == type_mappings
        attributes ==
            SelectSeq(dim_table.attributes,
                      LAMBDA attr : attr \notin {dim_table.surrogate_key,
                                                 dim_table.natural_key})
        attribute_line(j) ==
            "    " \o attributes[j] \o " "
            \o type_map[infer_attribute_type(attributes[j])] \o ",\n"
    IN  "CREATE TABLE " \o dim_table.name \o " (\n"
        \o "    " \o dim_table.surrogate_key \o " " \o type_map.surrogate_key
        \o " PRIMARY KEY,\n"
        \o "    " \o dim_table.natural_key \o " " \o type_map.natural_key
        \o " NOT NULL,\n"
        \o Lines([n \in 1..(Len(attributes)) |-> attribute_line(n)])
        \o (IF dim_table.scd_type = 2
            THEN "    effective_date " \o type_map.date \o " NOT NULL,\n"
                 \o "    expiry_date " \o type_map.date \o ",\n"
                 \o "    is_current " \o type_map.boolean \o " DEFAULT TRUE,\n"
                 \o "    version_number " \o type_map.integer \o " DEFAULT 1,\n"
            ELSE "")
        \o "    created_at " \o type_map.timestamp
        \o " DEFAULT CURRENT_TIMESTAMP,\n"
        \o "    updated_at " \o type_map.timestamp
        \o " DEFAULT CURRENT_TIMESTAMP,\n"
        \o "    created_by " \o type_map.string \o " DEFAULT 'ETL_PROCESS',\n"
        \o "    updated_by " \o type_map.string \o " DEFAULT 'ETL_PROCESS'\n"
        \o ");\n\n"
        \o "COMMENT ON COLUMN " \o dim_table.name \o "."
        \o dim_table.surrogate_key \o " IS 'Surrogate key for "
        \o dim_table.name \o "';\n"
        \o "COMMENT ON COLUMN " \o dim_table.name \o "."
        \o dim_table.natural_key \o " IS 'Natural business key';\n\n"

\* _infer_measure_type
infer_measure_type(measure_name) ==
    IF AnyIn(Lower(measure_name), {"count", "quantity", "qty"})
    THEN "bigint" ELSE "decimal"

\* _generate_fact_table_ddl, without the lines that quote the description
\* and the grain of the table
generate_fact_table_ddl(fact_table, dimension_tables) ==
    LET type_map == type_mappings
        key_line(d) ==
            "    " \o dimension_tables[d].surrogate_key \o " "
            \o type_map.bigint \o " NOT NULL,\n"
        measure_line(m) ==
            "    " \o fact_table.measures[m] \o " "
            \o type_map[infer_measure_type(fact_table.measures[m])] \o ",\n"
    IN  "CREATE TABLE " \o fact_table.name \o " (\n"
        \o Lines([n \in 1..(Len(dimension_tables)) |-> key_line(n)])
        \o Lines([n \in 1..(Len(fact_table.measures)) |-> measure_line(n)])
        \o "    transaction_id " \o type_map.string \o ",\n"
        \o "    source_system " \o type_map.string
        \o " DEFAULT 'MAIN_SYSTEM',\n"
        \o "    created_at " \o type_map.timestamp
        \o " DEFAULT CURRENT_TIMESTAMP,\n"
        \o "    updated_at " \o type_map.timestamp
        \o " DEFAULT CURRENT_TIMESTAMP,\n"
        \o "    etl_batch_id " \o type_map.bigint \o ",\n"
        \o "    data_quality_score " \o type_map.decimal \o "\n"
        \o ");\n\n"

\* _generate_dimension_indexes
generate_dimension_indexes(dim_table) ==
    LET searchable_attributes ==
            SelectSeq(dim_table.attributes,
                      LAMBDA attr : AnyIn(Lower(attr),
                                          {"name", "code", "type", "status"}))
        indexed == Take(searchable_attributes, 3)
    IN  << "CREATE UNIQUE INDEX idx_" \o dim_table.name \o "_"
           \o dim_table.natural_key \o " ON " \o dim_table.name \o "("
           \o dim_table.natural_key \o ");" >>
        \o (IF dim_table.scd_type = 2
            THEN << "CREATE INDEX idx_" \o dim_table.name \o "_current ON "
                    \o dim_table.name \o "(is_current, "
                    \o dim_table.natural_key \o ");",
                    "CREATE INDEX idx_" \o dim_table.name \o "_effective ON "
                    \o dim_table.name \o "(effective_date, expiry_date);" >>
            ELSE <<>>)
        \o [j \in 1..Len(indexed) |->
               "CREATE INDEX idx_" \o dim_table.name \o "_" \o indexed[j]
               \o " ON " \o dim_table.name \o "(" \o indexed[j] \o ");"]

\* _generate_fact_indexes
generate_fact_indexes(fact_table, dimension_tables) ==
    LET dim_keys == [d \in 1..Len(dimension_tables) |->
                        dimension_tables[d].surrogate_key]
        date_dims == SelectSeq(dimension_tables,
                               LAMBDA dim : Contains(Lower(dim.name), "date"))
    IN  << "CREATE INDEX idx_" \o fact_table.name \o "_dims ON "
           \o fact_table.name \o "(" \o Join(dim_keys, ", ") \o ");" >>
        \o [d \in 1..Len(dimension_tables) |->
               "CREATE INDEX idx_" \o fact_table.name \o "_" \o dim_keys[d]
               \o " ON " \o fact_table.name \o "(" \o dim_keys[d] \o ");"]
        \o (IF date_dims # <<>>
            THEN << "CREATE INDEX idx_" \o fact_table.name \o "_date ON "
                    \o fact_table.name \o "(" \o date_dims[1].surrogate_key
                    \o ");" >>
            ELSE <<>>)
        \o << "CREATE INDEX idx_" \o fact_table.name \o "_etl_batch ON "
              \o fact_table.name \o "(etl_batch_id);" >>

\* _generate_foreign_key_constraints
generate_foreign_key_constraints(schema) ==
    [d \in 1..Len(schema.dimension_tables) |->
        LET dim_table == schema.dimension_tables[d]
        IN  "ALTER TABLE " \o schema.fact_table.name \o " ADD CONSTRAINT fk_"
            \o schema.fact_table.name \o "_" \o dim_table.name
            \o " FOREIGN KEY (" \o dim_table.surrogate_key \o ") REFERENCES "
            \o dim_table.name \o "(" \o dim_table.surrogate_key \o ");"]

\* _generate_partitioning_strategy
generate_partitioning_strategy(schema) ==
    LET date_dims == SelectSeq(schema.dimension_tables,
                               LAMBDA dim : Contains(Lower(dim.name), "date"))
    IN  IF date_dims # <<>>
        THEN << "\n-- Partition fact table by date for better performance\n"
                \o "ALTER TABLE " \o schema.fact_table.name \o " \n"
                \o "PARTITION BY RANGE (" \o date_dims[1].surrogate_key
                \o ") (\n"
                \o "    PARTITION p_2023 VALUES LESS THAN (20240101),\n"
                \o "    PARTITION p_2024 VALUES LESS THAN (20250101),\n"
                \o "    PARTITION p_future VALUES LESS THAN MAXVALUE\n);" >>
        ELSE <<>>

\* the alias.attr texts of _generate_analytical_views from dimension d on:
\* the first three attributes of every dimension
RECURSIVE DimSelects(_, _)
DimSelects(dimension_tables, d) ==
    IF d > Len(dimension_tables) THEN <<>>
    ELSE LET alias == Replace(dimension_tables[d].name, "dim_", "")
             key_attrs == Take(dimension_tables[d].attributes, 3)
         IN  [j \in 1..Len(key_attrs) |-> alias \o "." \o key_attrs[j]]
             \o DimSelects(dimension_tables, d + 1)

\* _generate_analytical_views
generate_analytical_views(schema) ==
    LET dims == schema.dimension_tables
        fact == schema.fact_table
        dim_joins ==
            [d \in 1..Len(dims) |->
                LET alias == Replace(dims[d].name, "dim_", "")
                IN  "LEFT JOIN " \o dims[d].name \o " " \o alias \o " ON f."
                    \o dims[d].surrogate_key \o " = " \o alias \o "."
                    \o dims[d].surrogate_key]
        dim_selects == DimSelects(dims, 1)
        measures_select ==
            Join([m \in 1..Len(fact.measures) |->
                     "SUM(f." \o fact.measures[m] \o ") as total_"
                     \o fact.measures[m]], ", ")
    IN  << "\n-- Analytical summary view\n"
           \o "CREATE VIEW vw_" \o fact.name \o "_summary AS\n"
           \o "SELECT \n"
           \o "    " \o Join(dim_selects, ", ") \o ",\n"
           \o "    " \o measures_select \o ",\n"
           \o "    COUNT(*) as record_count\n"
           \o "FROM " \o fact.name \o " f\n"
           \o Join(dim_joins, "\n") \o "\n"
           \o "GROUP BY " \o Join(dim_selects, ", ") \o ";\n" >>

\* the original_sql argument: whether a non-empty text is given, and the
\* INSERT statements it holds
OriginalSql(given, inserts) == [given |-> given, inserts |-> inserts]

\* the dict that holds the keys and values of pairs, put in that order
RECURSIVE DictOf(_)
DictOf(pairs) ==
    IF pairs = <<>> THEN <<>>
    ELSE DictPut(DictOf(SubSeq(pairs, 1, Len(pairs) - 1)),
                 pairs[Len(pairs)].key, pairs[Len(pairs)].value)

\* generate_sample_dml once the real data is extracted: Return of the dict
\* of DML texts, or Raise
sample_dml(schema, num_records, extracted, hash_seed, rng) ==
    LET real_data == extracted.value
        real(dim_table) ==
            generate_dimension_real_data(dim_table, real_data, hash_seed)
        sample(dim_table) ==
            generate_dimension_sample_data(dim_table, num_records, rng)
        fact_key == "insert_" \o schema.fact_table.name
        dims == schema.dimension_tables
    IN  IF extracted.raised THEN Raise
        ELSE IF real_data # <<>>
        THEN Return(DictPut(
                 DictOf([d \in 1..Len(dims) |->
                            [key |-> "insert_" \o dims[d].name,
                             value |-> real(dims[d])]]),
                 fact_key,
                 generate_fact_real_data(schema.fact_table,
                                         schema.dimension_tables, real_data)))
        ELSE Return(DictPut(
                 DictOf([d \in 1..Len(dims) |->
                            [key |-> "insert_" \o dims[d].name,
                             value |-> sample(dims[d])]]),
                 fact_key,
                 generate_fact_sample_data(schema.fact_table,
                                           schema.dimension_tables,
                                           num_records, rng)))

\* generate_sample_dml: Return of the dict of DML texts, or Raise
generate_sample_dml(schema, num_records, original_sql, hash_seed, rng) ==
    sample_dml(schema, num_records,
               IF original_sql.given
               THEN extract_real_data_from_sql(original_sql.inserts)
               ELSE Return(<<>>),
               hash_seed, rng)

\* the DDL texts and the index texts of the dimension tables, from
\* dimension d on
RECURSIVE DimensionIndexes(_, _)
DimensionIndexes(dimension_tables, d) ==
    IF d > Len(dimension_tables) THEN <<>>
    ELSE generate_dimension_indexes(dimension_tables[d])
         \o DimensionIndexes(dimension_tables, d + 1)

\* the arguments of generate_complete_schema
GeneratorArgs(schema, flags, sample_records, original_sql) ==
    [star_schema |-> schema,
     include_indexes |-> flags.include_indexes,
     include_partitioning |-> flags.include_partitioning,
     include_constraints |-> flags.include_constraints,
     include_sample_data |-> flags.include_sample_data,
     sample_records |-> sample_records,
     original_sql |-> original_sql]

\* appends the fact table before the dimension tables
schema_result_fact_first(args, dml) ==
    LET schema == args.star_schema
        dims == schema.dimension_tables
    IN  IF dml.raised THEN Raise
        ELSE Return(
            [ddl_statements |->
                 << generate_fact_table_ddl(schema.fact_table, dims) >>
                 \o [d \in 1..Len(dims) |-> generate_dimension_table_ddl(dims[d])]
                 \o generate_analytical_views(schema),
             dml_statements |-> dml.value,
             indexes |->
                 IF args.include_indexes
                 THEN DimensionIndexes(dims, 1)
                      \o generate_fact_indexes(schema.fact_table, dims)
                 ELSE <<>>,
             constraints |->
                 IF args.include_constraints
                 THEN generate_foreign_key_constraints(schema) ELSE <<>>,
             partitions |->
                 IF args.include_partitioning
                 THEN generate_partitioning_strategy(schema) ELSE <<>>])

\* generate_complete_schema once the DML is generated: Return of the result
\* (its ddl_statements, dml_statements, indexes, constraints and
\* partitions), or Raise when an exception leaves the call
schema_result(args, dml) ==
    LET schema == args.star_schema
        dims == schema.dimension_tables
    IN  IF dml.raised THEN Raise
        ELSE Return(
            [ddl_statements |->
                 [d \in 1..Len(dims) |-> generate_dimension_table_ddl(dims[d])]
                 \o << generate_fact_table_ddl(schema.fact_table, dims) >>
                 \o generate_analytical_views(schema),
             dml_statements |-> dml.value,
             indexes |->
                 IF args.include_indexes
                 THEN DimensionIndexes(dims, 1)
                      \o generate_fact_indexes(schema.fact_table, dims)
                 ELSE <<>>,
             constraints |->
                 IF args.include_constraints
                 THEN generate_foreign_key_constraints(schema) ELSE <<>>,
             partitions |->
                 IF args.include_partitioning
                 THEN generate_partitioning_strategy(schema) ELSE <<>>])

\* generate_complete_schema
generate_complete_schema(args, hash_seed, rng) ==
    schema_result(
        args,
        IF args.include_sample_data \/ args.original_sql.given
        THEN generate_sample_dml(args.star_schema, args.sample_records,
                                 args.original_sql, hash_seed, rng)
        ELSE Return(<<>>))

(***************************************************************************)
(* Inputs: the star schemas, flags and SQL texts the generator is called   *)
(* with.                                                                   *)
(***************************************************************************)
\* the states of the random generator that are told apart
RandomStates == 2

\* the greatest sample_records argument
MaxSampleRecords == 2

GeneratorSchemas ==
    LET \* CREATE TABLE statements beside those of the catalog
        ExtraTables ==
            [t |-> [name |-> "t",
                    column_defs |-> << ColumnDef("a", "varchar", FALSE),
                                       ColumnDef("b", "varchar", FALSE) >>],
             nomes |-> [name |-> "clientes",
                        column_defs |-> << ColumnDef("Sobrenome", "varchar", FALSE),
                                           ColumnDef("Nome", "varchar", FALSE) >>]]
        \* the star schema of one table, classified by the rules
        RuleBasedSchema(statement) ==
            LET table_data == analyze_create_table(statement)
            IN  denormalize_single_table(table_data,
                                         fallback_classification(table_data.columns))
        \* the star schema of the SQL text of two catalog tables
        TwoTableSchema(first, second) ==
            LET sql == << CHOOSE s \in Catalog : s.name = first,
                          CHOOSE s \in Catalog : s.name = second >>
            IN  generate_star_schema(parse_sql(StoreTables(<<>>, sql), sql), <<>>)
        \* a star schema with no dimension table, and one whose only dimension has
        \* the single attribute a of table t
        HandmadeSchemas ==
            LET fact_vendas == FactTable("fact_vendas", "vendas", << "valor" >>, <<>>)
                fact_t == FactTable("fact_t", "t", << "visit_count" >>, << "t_sk" >>)
                dim_t == DimensionTable("dim_t", "t", "t_sk", "a", << "a" >>)
            IN  [none |-> StarSchema(fact_vendas, <<>>, <<>>, 1, "denormalization"),
                 a |-> StarSchema(fact_t, << dim_t >>,
                                  create_relationships(fact_t, << dim_t >>),
                                  1, "denormalization")]
    IN
    { RuleBasedSchema(CHOOSE s \in Catalog : s.name = "vendas"),
      TwoTableSchema("vendas", "clientes"),
      RuleBasedSchema(ExtraTables.t),
      RuleBasedSchema(ExtraTables.nomes),
      HandmadeSchemas.none,
      HandmadeSchemas.a }

AllGeneratorArgs ==
    LET GeneratorFlags ==
            { [include_indexes |-> TRUE, include_partitioning |-> FALSE,
               include_constraints |-> TRUE, include_sample_data |-> FALSE],
              [include_indexes |-> TRUE, include_partitioning |-> TRUE,
               include_constraints |-> TRUE, include_sample_data |-> TRUE],
              [include_indexes |-> FALSE, include_partitioning |-> FALSE,
               include_constraints |-> FALSE, include_sample_data |-> TRUE] }
        OriginalSqls ==
            { OriginalSql(FALSE, <<>>),
              OriginalSql(TRUE, <<>>),
              OriginalSql(TRUE,
                  << InsertStatement("vendas", "nome, data_venda, valor, quantidade",
                                     "'Ana', '2024-01-05', 10.5, 2"),
                     InsertStatement("vendas", "nome, data_venda, valor, quantidade",
                                     "'Bia, Jr', '2024-01-05', n/a, 3") >>),
              OriginalSql(TRUE, << InsertStatement("t", "a, b", "'x', 'y'") >>),
              OriginalSql(TRUE, << InsertStatement("clientes", "Sobrenome, Nome",
                                                   "'Silva', 'Ana'") >>),
              OriginalSql(TRUE, << InsertStatement("t", "a, b", "NULL, NULL") >>),
              OriginalSql(TRUE, << InsertStatement("t", "a", "'x'"),
                                   InsertStatement("t", "b", "'y'") >>) }
    IN
    { GeneratorArgs(schema, flags, sample_records, original_sql) :
          schema \in GeneratorSchemas, flags \in GeneratorFlags,
          sample_records \in 1..MaxSampleRecords,
          original_sql \in OriginalSqls }

NoArgs == [star_schema |-> Pending]

(***************************************************************************)
(* Inputs: the SQL texts of generate-dw-model requests, as their CREATE    *)
(* TABLE statements and their INSERT statements.                           *)
(***************************************************************************)
\* sample_records=10 of generate_dw_model
AppSampleRecords == 10

SqlContent(names, inserts) ==
    [statements |-> [i \in 1..Len(names) |->
                        CHOOSE s \in Catalog : s.name = names[i]],
     inserts |-> inserts]

RequestTexts ==
    { SqlContent(<<>>, <<>>),
      SqlContent(<< "vendas" >>,
          << InsertStatement("vendas", "nome, data_venda, valor, quantidade",
                             "'Ana', '2024-01-05', 10.5, 2") >>),
      SqlContent(<< "vendas", "clientes" >>, <<>>),
      SqlContent(<< "pedidos", "clientes" >>,
          << InsertStatement("clientes", "id, Nome, cidade",
                             "1, 'Ana', 'Recife'") >>) }

(***************************************************************************)
(* SQLAnalyzer on the text of the statements: _analyze_create_table and    *)
(* _parse_column_definition, character by character.                       *)
(***************************************************************************)
\* str.split(): the words of s from position i on, word being the word read
\* so far
RECURSIVE SplitWords(_, _, _)
SplitWords(s, i, word) ==
    IF i > Len(s) THEN (IF word = "" THEN <<>> ELSE << word >>)
    ELSE IF SubSeq(s, i, i) \in {" ", "\t", "\n", "\r"}
    THEN (IF word = "" THEN <<>> ELSE << word >>) \o SplitWords(s, i + 1, "")
    ELSE SplitWords(s, i + 1, word \o SubSeq(s, i, i))

\* the end of what chars* matches in s from position i, greedily
RECURSIVE SkipWhile(_, _, _)
SkipWhile(s, i, chars) ==
    IF i <= Len(s) /\ SubSeq(s, i, i) \in chars
    THEN SkipWhile(s, i + 1, chars) ELSE i

\* re.search of CREATE\s+TABLE\s+["]?(\w+)["]?\s*\( ignoring case (the
\* pattern also allows a backquote where it allows the double quote): a
\* sequence holding group 1 of the leftmost match, empty where there is none
table_name_match(statement_str) ==
    LET s == statement_str
        space == {" ", "\t", "\n", "\r"}
        \* the characters \w matches
        word ==
            DOMAIN UpperToLower
            \cup { UpperToLower[c] : c \in DOMAIN UpperToLower }
            \cup {"0", "1", "2", "3", "4", "5", "6", "7", "8", "9", "_"}
        \* the character at position k, "" beyond the end
        CharAt(k) == IF k \in 1..Len(s) THEN SubSeq(s, k, k) ELSE ""
        \* the match at position i: a sequence holding group 1, empty where
        \* the pattern does not match there
        TableNameAt(i) ==
            LET table == SkipWhile(s, i + 6, space)
                quote == SkipWhile(s, table + 5, space)
                name == IF CharAt(quote) = "\"" THEN quote + 1 ELSE quote
                after == SkipWhile(s, name, word)
                rest == IF CharAt(after) = "\"" THEN after + 1 ELSE after
            IN  IF /\ i + 5 <= Len(s)
                   /\ MapChars(SubSeq(s, i, i + 5), 1, TRUE) = "CREATE"
                   /\ table > i + 6
                   /\ table + 4 <= Len(s)
                   /\ MapChars(SubSeq(s, table, table + 4), 1, TRUE) = "TABLE"
                   /\ quote > table + 5
                   /\ after > name
                   /\ CharAt(SkipWhile(s, rest, space)) = "("
                THEN << SubSeq(s, name, after - 1) >>
                ELSE <<>>
        found == { i \in 1..Len(s) : TableNameAt(i) # <<>> }
    IN  IF found = {} THEN <<>>
        ELSE TableNameAt(CHOOSE i \in found : \A j \in found : i <= j)

\* _parse_column_definition of one line of the body: a sequence holding the
\* ColumnInfo, empty where the code returns None
parse_column_line(line) ==
    LET \* .rstrip(',') removes nothing: a line of split(',') has no comma
        column_def == Strip(line)
        upper == MapChars(column_def, 1, TRUE)
        parts == SplitWords(column_def, 1, "")
    IN  IF AnyIn(upper, {"PRIMARY KEY", "FOREIGN KEY", "CONSTRAINT", "INDEX"})
        THEN <<>>
        ELSE IF Len(parts) < 2 THEN <<>>
        ELSE << [name |-> StripChars(parts[1], {"\""}),
                 data_type |-> MapChars(parts[2], 1, TRUE),
                 is_nullable |-> ~Contains(upper, "NOT NULL"),
                 is_primary_key |-> Contains(upper, "PRIMARY KEY")] >>

\* the loop of _analyze_create_table over column_lines
RECURSIVE ColumnsOfLines(_)
ColumnsOfLines(column_lines) ==
    IF column_lines = <<>> THEN <<>>
    ELSE (IF Strip(Head(column_lines)) # ""
          THEN parse_column_line(Strip(Head(column_lines))) ELSE <<>>)
         \o ColumnsOfLines(Tail(column_lines))

\* _analyze_create_table of the text of one statement: a sequence holding
\* the TableInfo, empty where the code returns None
analyze_statement(statement_str) ==
    LET \* re.search(r'\((.*)\)', statement_str, re.DOTALL): group 1 runs from
        \* the first opening parenthesis to the last closing one
        opening == { i \in 1..Len(statement_str) :
                         SubSeq(statement_str, i, i) = "(" }
        first == CHOOSE i \in opening : \A j \in opening : i <= j
        closing == { i \in 1..Len(statement_str) :
                         SubSeq(statement_str, i, i) = ")" /\ i > first }
        columns_section ==
            IF opening = {} \/ closing = {} THEN <<>>
            ELSE << SubSeq(statement_str, first + 1,
                           (CHOOSE i \in closing : \A j \in closing : j <= i)
                           - 1) >>
        columns ==
            IF columns_section = <<>> THEN <<>>
            ELSE ColumnsOfLines(Split(columns_section[1], ","))
    IN  IF table_name_match(statement_str) = <<>> THEN <<>>
        ELSE << [name |-> table_name_match(statement_str)[1],
                 columns |-> columns,
                 primary_keys |-> PrimaryKeyNames(columns)] >>

\* _is_create_table: the first two tokens of the statement that are neither
\* whitespace nor comments are CREATE and TABLE
is_create_table(statement_str) ==
    LET tokens == SplitWords(statement_str, 1, "")
    IN  /\ Len(tokens) >= 2
        /\ MapChars(tokens[1], 1, TRUE) = "CREATE"
        /\ MapChars(tokens[2], 1, TRUE) = "TABLE"

(***************************************************************************)
(* Inputs: the statements of SQL files, each written from the lines of its *)
(* body; what a line declares is kept beside its text.                     *)
(***************************************************************************)
\* the statements the SQL files are made of
Statements ==
    LET \* the line of a column: its text, the column's name, whether it is
        \* declared NOT NULL and PRIMARY KEY, and whether its type has arguments
        ColumnLine(text, name, not_null, primary_key, nested) ==
            [text |-> text, clause |-> FALSE, name |-> name, not_null |-> not_null,
             primary_key |-> primary_key, nested |-> nested]

        \* the line of a table-level constraint clause
        ClauseLine(text) ==
            [text |-> text, clause |-> TRUE, name |-> None, not_null |-> FALSE,
             primary_key |-> FALSE, nested |-> FALSE]

        \* the statement that opens with head and has the lines as its body; name is
        \* the table name it declares, None where it declares none
        Statement(head, name, lines) ==
            [text |-> head \o " (" \o Join([i \in 1..Len(lines) |-> lines[i].text],
                                           ", ") \o ")",
             name |-> name, lines |-> lines]
    IN
    { Statement("CREATE TABLE plain", "plain",
          << ColumnLine("a INT", "a", FALSE, FALSE, FALSE),
             ColumnLine("b VARCHAR NOT NULL", "b", TRUE, FALSE, FALSE) >>),
      Statement("create table \"quoted\"", "quoted",
          << ColumnLine("\"a\" int not null", "a", TRUE, FALSE, FALSE) >>),
      Statement("CREATE TABLE keyed", "keyed",
          << ColumnLine("id INT PRIMARY KEY", "id", FALSE, TRUE, FALSE),
             ColumnLine("nome VARCHAR", "nome", FALSE, FALSE, FALSE) >>),
      Statement("CREATE TABLE only_key", "only_key",
          << ColumnLine("id INT PRIMARY KEY", "id", FALSE, TRUE, FALSE) >>),
      Statement("CREATE TABLE only_clause", "only_clause",
          << ClauseLine("CONSTRAINT pk PRIMARY KEY (a)") >>),
      Statement("CREATE TABLE priced", "priced",
          << ColumnLine("a INT NOT NULL", "a", TRUE, FALSE, FALSE),
             ColumnLine("valor NUMERIC(10,2) NOT NULL", "valor",
                        TRUE, FALSE, TRUE) >>),
      Statement("CREATE TABLE bare_price", "bare_price",
          << ColumnLine("valor NUMERIC(10,2)", "valor",
                        FALSE, FALSE, TRUE) >>),
      Statement("CREATE TABLE constrained", "constrained",
          << ColumnLine("a INT", "a", FALSE, FALSE, FALSE),
             ClauseLine("PRIMARY KEY (a)") >>),
      Statement("CREATE TABLE composite", "composite",
          << ColumnLine("a INT", "a", FALSE, FALSE, FALSE),
             ColumnLine("b INT", "b", FALSE, FALSE, FALSE),
             ClauseLine("PRIMARY KEY (a, b)") >>),
      Statement("CREATE TABLE referencing", "referencing",
          << ColumnLine("cliente INT", "cliente", FALSE, FALSE, FALSE),
             ClauseLine("FOREIGN KEY (cliente) REFERENCES clientes(id)") >>),
      Statement("CREATE TABLE ordered", "ordered",
          << ColumnLine("order_index INT", "order_index",
                        FALSE, FALSE, FALSE),
             ColumnLine("b INT", "b", FALSE, FALSE, FALSE) >>),
      Statement("CREATE TABLE", None,
          << ColumnLine("a INT", "a", FALSE, FALSE, FALSE) >>),
      Statement("INSERT INTO plain VALUES", None, << ClauseLine("1") >>) }

\* _analyze_create_table of every statement, computed once
AnalyzedStatements ==
    [statement \in Statements |-> analyze_statement(statement.text)]

\* analysis_result["tables"] after the loop of parse_sql over the statements
RECURSIVE ExtractedTables(_)
ExtractedTables(statements) ==
    IF statements = <<>> THEN <<>>
    ELSE (IF Strip(Head(statements).text) # ""
             /\ is_create_table(Head(statements).text)
          THEN AnalyzedStatements[Head(statements)] ELSE <<>>)
         \o ExtractedTables(Tail(statements))

(***************************************************************************)
(* Inputs: the rule-based strategy is called with up to MaxRuleColumns     *)
(* columns.                                                                *)
(***************************************************************************)
MaxRuleColumns == 2

(***************************************************************************)
(* State: the generate-dw-model request being served, which constructs its *)
(* own engine (DimensionalModelingEngine with its SQLAnalyzer and          *)
(* AIDimensionClassifier) and calls create_dimensional_model on it.        *)
(***************************************************************************)
VARIABLES
    enabled,         \* AIDimensionClassifier.enabled
    analyzer_tables, \* SQLAnalyzer.tables
    pc,              \* "idle", "calling" inside requests.post, or "done"
    analysis,        \* the analysis of the current call
    elapsed,         \* seconds spent in requests.post
    exchange,        \* how the HTTP exchange of the call ended
    classified,      \* columns and result of classify_table_dimensions
    star_schema      \* what the call produced

\* a call of StarSchemaGenerator._infer_attribute_type
VARIABLES
    attribute_name,  \* its argument
    inferred         \* what it returned, None before it has returned

\* calls of StarSchemaGenerator.generate_complete_schema in one process
VARIABLES
    gen_args,        \* the arguments of the calls
    hash_seed,       \* the string hash seed of the process
    gen_results      \* what the calls made so far returned, in order

\* generate-dw-model requests served at the same time by one process
VARIABLES
    requests,        \* the local variables of each request's handler
    engines          \* the DimensionalModelingEngine objects constructed

\* a call of SQLAnalyzer.parse_sql on the text of an SQL file
VARIABLES
    sql_statements,  \* the statements of the text, as sqlparse.split cuts it
    result_tables    \* analysis_result["tables"] of the call

inference_vars == << attribute_name, inferred >>

extraction_vars == << sql_statements, result_tables >>

concurrent_vars == << requests, engines >>

generation_vars == << gen_args, hash_seed, gen_results >>

generator_vars == << inference_vars, generation_vars >>

vars == << enabled, analyzer_tables, pc, analysis, elapsed,
           exchange, classified, star_schema, generator_vars,
           concurrent_vars, extraction_vars >>

\* no call of generate_complete_schema is being made
NoGeneration ==
    /\ gen_args = NoArgs
    /\ hash_seed = "forward"
    /\ gen_results = <<>>

\* no generator call is being made
GeneratorIdle ==
    /\ attribute_name = None
    /\ inferred = None
    /\ NoGeneration

NoAnalysis ==
    [tables |-> <<>>,
     dimensional_analysis |-> [fact_candidates |-> <<>>,
                               dimension_candidates |-> <<>>]]

\* the requests served at the same time
Requests == {1, 2}

\* a DimensionalModelingEngine as its constructor leaves it
EmptyEngine == [tables |-> <<>>, star_schemas |-> <<>>]

\* the handler's variables before the request has arrived
\* (overlapped is no variable of the handler: it records whether another
\* request was being served at some time while this one was)
\* no SQL text is being parsed
NoExtraction ==
    /\ sql_statements = <<>>
    /\ result_tables = <<>>

\* no concurrent requests are being served
NoRequests ==
    LET NoRequest ==
            [pc |-> "idle", sql |-> SqlContent(<<>>, <<>>), analysis |-> NoAnalysis,
             star_schema |-> Pending, response |-> [kind |-> "pending"],
             overlapped |-> FALSE]
    IN
    /\ requests = [r \in Requests |-> NoRequest]
    /\ engines = [r \in Requests |-> EmptyEngine]

Init ==
    /\ NoRequests
    /\ NoExtraction
    /\ enabled \in BOOLEAN
    /\ analyzer_tables = <<>>
    /\ pc = "idle"
    /\ analysis = NoAnalysis
    /\ elapsed = 0
    /\ exchange = NoExchange
    /\ classified = NotClassified
    /\ star_schema = Pending
    /\ GeneratorIdle

\* modeling_engine = DimensionalModelingEngine(), whose analyzer starts with
\* self.tables = {}, and analysis = self.sql_analyzer.parse_sql(sql_content)
Parse(sql) ==
    /\ analyzer_tables' = StoreTables(<<>>, sql)
    /\ analysis' = parse_sql(analyzer_tables', sql)

\* the rest of create_dimensional_model once the classifier's HTTP exchange,
\* if it makes one, has ended in x
Complete(a, x) ==
    LET single == TakesSingleTablePath(a)
        columns == IF single THEN a.tables[1].columns ELSE <<>>
        result == IF single
                  THEN classify_table_dimensions(enabled, columns, x)
                  ELSE <<>>
    IN  /\ classified' = IF single
                         THEN [called |-> TRUE, columns |-> columns,
                               result |-> result]
                         ELSE NotClassified
        /\ star_schema' = generate_star_schema(a, result)
        /\ exchange' = x
        /\ elapsed' = 0
        /\ pc' = "done"

\* create_dimensional_model(sql) that makes no HTTP call: no table, the
\* multi-table path, or a disabled classifier
CreateModel(sql) ==
    /\ pc = "idle"
    /\ Parse(sql)
    /\ ~(enabled /\ TakesSingleTablePath(analysis'))
    /\ Complete(analysis', NoExchange)
    /\ UNCHANGED << enabled, generator_vars, concurrent_vars,
                 extraction_vars >>

\* create_dimensional_model(sql) up to requests.post of the classifier
BeginCreateModel(sql) ==
    /\ pc = "idle"
    /\ enabled
    /\ Parse(sql)
    /\ TakesSingleTablePath(analysis')
    /\ pc' = "calling"
    /\ elapsed' = 0
    /\ exchange' = NoExchange
    /\ classified' = NotClassified
    /\ star_schema' = Pending
    /\ UNCHANGED << enabled, generator_vars, concurrent_vars,
                 extraction_vars >>

\* requests.post without a timeout argument
TimedOut_never(e) == FALSE

\* whether requests.post gives up after e seconds without an answer
TimedOut(e) == e >= RequestTimeout

\* the service stays silent inside requests.post until the timeout is due
\* (the seconds in between are not told apart)
Tick ==
    /\ pc = "calling"
    /\ elapsed < RequestTimeout
    /\ elapsed' = RequestTimeout
    /\ UNCHANGED << enabled, analyzer_tables, pc, analysis, exchange,
                    classified, star_schema, generator_vars,
                    concurrent_vars,
                 extraction_vars >>

\* the exchange ends before the timeout: an answer or a broken connection
ServiceAnswers(x) ==
    /\ pc = "calling"
    /\ ~TimedOut(elapsed)
    /\ Complete(analysis, x)
    /\ UNCHANGED << enabled, analyzer_tables, analysis, generator_vars,
                    concurrent_vars,
                 extraction_vars >>

\* requests.post raises Timeout
Timeout ==
    /\ pc = "calling"
    /\ TimedOut(elapsed)
    /\ Complete(analysis, Exchange("timeout", <<>>))
    /\ UNCHANGED << enabled, analyzer_tables, analysis, generator_vars,
                    concurrent_vars,
                 extraction_vars >>

\* the request is answered with the result; its engine is dropped
Respond ==
    /\ pc = "done"
    /\ pc' = "idle"
    /\ analyzer_tables' = <<>>
    /\ analysis' = NoAnalysis
    /\ exchange' = NoExchange
    /\ classified' = NotClassified
    /\ star_schema' = Pending
    /\ UNCHANGED << enabled, elapsed, generator_vars, concurrent_vars,
                 extraction_vars >>

Next ==
    \/ \E sql \in SqlTexts : CreateModel(sql)
    \/ \E sql \in SqlTexts : BeginCreateModel(sql)
    \/ Tick
    \/ \E x \in AnsweredExchanges : ServiceAnswers(x)
    \/ Timeout
    \/ Respond

Spec == Init /\ [][Next]_vars

\* the clock of requests.post advances and its timeout fires
LiveSpec == Spec /\ WF_vars(Tick) /\ WF_vars(Timeout)

TypeOK ==
    /\ enabled \in BOOLEAN
    /\ pc \in {"idle", "calling", "done"}
    /\ elapsed \in 0..RequestTimeout
    /\ star_schema.kind \in {"pending", "error", "schema"}

(***************************************************************************)
(* Calls of StarSchemaGenerator._infer_attribute_type, outside a request.  *)
(***************************************************************************)
pipeline_vars == << enabled, analyzer_tables, pc, analysis, elapsed,
                    exchange, classified, star_schema >>

\* no request is being served
PipelineIdle ==
    /\ enabled = FALSE
    /\ analyzer_tables = <<>>
    /\ pc = "idle"
    /\ analysis = NoAnalysis
    /\ elapsed = 0
    /\ exchange = NoExchange
    /\ classified = NotClassified
    /\ star_schema = Pending

InferInit ==
    LET \* the keywords of the rules
        AttributeKeywords ==
            { "flag", "date", "time", "created", "updated", "id", "key", "number",
              "amount", "price", "cost", "value", "description", "comment", "note",
              "nome", "Status" }
        \* attribute names made of them
        AttributeNames ==
            { prefix \o keyword \o suffix :
                  prefix \in {"", "is_", "has_"},
                  keyword \in AttributeKeywords,
                  suffix \in {"", "_total"} }
            \cup { "is_holiday", "is_weekend", "valor_total", "data_venda",
                   "full_date", "day_of_week", "year", "IS_ACTIVE" }
    IN
    /\ NoRequests
    /\ NoExtraction
    /\ PipelineIdle
    /\ NoGeneration
    /\ attribute_name \in AttributeNames
    /\ inferred = None

InferAttributeType ==
    /\ inferred = None
    /\ inferred' = infer_attribute_type(attribute_name)
    /\ UNCHANGED << attribute_name, pipeline_vars, generation_vars,
                    concurrent_vars,
                 extraction_vars >>

InferNext == InferAttributeType

InferSpec == InferInit /\ [][InferNext]_vars

(***************************************************************************)
(* Calls of StarSchemaGenerator.generate_complete_schema: a call, and a    *)
(* second call with the same arguments in the same process.                *)
(***************************************************************************)
GenInit ==
    /\ NoRequests
    /\ NoExtraction
    /\ PipelineIdle
    /\ attribute_name = None
    /\ inferred = None
    /\ gen_args \in AllGeneratorArgs
    /\ hash_seed \in HashSeeds
    /\ gen_results = <<>>

\* the call, made when the random generator is in state rng
GenerateCompleteSchema(rng) ==
    /\ gen_results = <<>>
    /\ gen_results' = << generate_complete_schema(gen_args, hash_seed, rng) >>
    /\ UNCHANGED << gen_args, hash_seed, inference_vars, pipeline_vars,
                    concurrent_vars,
                 extraction_vars >>

\* the call repeated with identical arguments
GenerateAgain(rng) ==
    /\ Len(gen_results) = 1
    /\ gen_results' =
           Append(gen_results,
                  generate_complete_schema(gen_args, hash_seed, rng))
    /\ UNCHANGED << gen_args, hash_seed, inference_vars, pipeline_vars,
                    concurrent_vars,
                 extraction_vars >>

GenNext ==
    \/ \E rng \in 0..(RandomStates - 1) : GenerateCompleteSchema(rng)
    \/ \E rng \in 0..(RandomStates - 1) : GenerateAgain(rng)

GenSpec == GenInit /\ [][GenNext]_vars

(***************************************************************************)
(* Calls of create_dimensional_model, one after another, on one            *)
(* DimensionalModelingEngine whose classifier has no API key: the engine's *)
(* SQLAnalyzer keeps self.tables from call to call.                        *)
(***************************************************************************)
ReuseInit ==
    /\ NoRequests
    /\ NoExtraction
    /\ PipelineIdle
    /\ GeneratorIdle

\* create_dimensional_model(sql) on the engine as the calls before left it
CreateModelOnEngine(sql) ==
    /\ pc \in {"idle", "done"}
    /\ analyzer_tables' = StoreTables(analyzer_tables, sql)
    /\ analysis' = parse_sql(analyzer_tables', sql)
    /\ Complete(analysis', NoExchange)
    /\ UNCHANGED << enabled, generator_vars, concurrent_vars,
                 extraction_vars >>

ReuseNext == \E sql \in SqlTexts : CreateModelOnEngine(sql)

ReuseSpec == ReuseInit /\ [][ReuseNext]_vars

(***************************************************************************)
(* Two generate-dw-model requests served at the same time by the threads   *)
(* of one process, without API key.  A step is a stretch of the handler    *)
(* between two accesses to its engine.                                     *)
(***************************************************************************)
\* the process-wide singleton engine that every request would use
EngineOf_singleton(r) == 1

\* the engine request r works on: modeling_engine, a local variable of the
\* handler bound to the object it has constructed
EngineOf(r) == r

\* the star schema _generate_star_schema builds from an analysis, with the
\* rule-based classification of the single-table path
ModelOf(a) ==
    generate_star_schema(
        a,
        IF TakesSingleTablePath(a)
        THEN classify_table_dimensions(FALSE, a.tables[1].columns, NoExchange)
        ELSE <<>>)

\* the answer with status 400 or 500
ErrorResponse == [kind |-> "error"]

\* the answer of the handler: own is the star schema create_dimensional_model
\* returned and schemas is modeling_engine.star_schemas
ResponseOf(own, schemas, sql, seed, rng) ==
    IF schemas = <<>>
    THEN [kind |-> "ok", star_schema |-> own,
          ddl_statements |-> <<>>, dml_statements |-> <<>>]
    ELSE LET complete_schema ==
                 generate_complete_schema(
                     GeneratorArgs(schemas[1],
                                   [include_indexes |-> TRUE,
                                    include_partitioning |-> FALSE,
                                    include_constraints |-> TRUE,
                                    include_sample_data |-> FALSE],
                                   AppSampleRecords,
                                   OriginalSql(TRUE, sql.inserts)),
                     seed, rng)
         IN  IF complete_schema.raised THEN ErrorResponse
             ELSE [kind |-> "ok", star_schema |-> own,
                   ddl_statements |-> complete_schema.value.ddl_statements,
                   dml_statements |-> complete_schema.value.dml_statements]

\* the handler of request r is running
InService(r) == requests[r].pc \notin {"idle", "responded"}

ConcurrentInit ==
    /\ PipelineIdle
    /\ attribute_name = None
    /\ inferred = None
    /\ gen_args = NoArgs
    /\ gen_results = <<>>
    /\ hash_seed \in HashSeeds
    /\ NoRequests
    /\ NoExtraction

\* request r arrives with its SQL text, and its handler constructs
\* modeling_engine = DimensionalModelingEngine()
Arrive(r, sql) ==
    /\ requests[r].pc = "idle"
    /\ requests' =
           [o \in Requests |->
               IF o = r
               THEN [requests[r] EXCEPT
                        !.pc = "constructed", !.sql = sql,
                        !.overlapped = \E other \in Requests : InService(other)]
               ELSE [requests[o] EXCEPT !.overlapped = @ \/ InService(o)]]
    /\ engines' = [engines EXCEPT ![EngineOf(r)] = EmptyEngine]
    /\ UNCHANGED << pipeline_vars, generator_vars,
                 extraction_vars >>

\* the loop of parse_sql over the statements, which fills self.tables
StoreStatements(r) ==
    /\ requests[r].pc = "constructed"
    /\ engines' = [engines EXCEPT ![EngineOf(r)].tables =
                       StoreTables(@, requests[r].sql.statements)]
    /\ requests' = [requests EXCEPT ![r].pc = "stored"]
    /\ UNCHANGED << pipeline_vars, generator_vars,
                 extraction_vars >>

\* _perform_dimensional_analysis over self.tables, and the return of
\* parse_sql
Analyze(r) ==
    /\ requests[r].pc = "stored"
    /\ requests' = [requests EXCEPT
                       ![r].pc = "analyzed",
                       ![r].analysis =
                           parse_sql(engines[EngineOf(r)].tables,
                                     requests[r].sql.statements)]
    /\ UNCHANGED << engines, pipeline_vars, generator_vars,
                 extraction_vars >>

\* the rest of create_dimensional_model: the star schema is built and
\* appended to self.star_schemas, or the handler answers with the error
GenerateStarSchema(r) ==
    LET own == ModelOf(requests[r].analysis)
    IN  /\ requests[r].pc = "analyzed"
        /\ IF own.kind = "error"
           THEN /\ requests' = [requests EXCEPT
                                   ![r].pc = "responded",
                                   ![r].response = ErrorResponse]
                /\ UNCHANGED engines
           ELSE /\ requests' = [requests EXCEPT ![r].pc = "modelled",
                                                ![r].star_schema = own]
                /\ engines' = [engines EXCEPT ![EngineOf(r)].star_schemas =
                                   Append(@, own)]
        /\ UNCHANGED << pipeline_vars, generator_vars,
                 extraction_vars >>

\* the handler reads modeling_engine.star_schemas, calls
\* generate_complete_schema while the random generator is in state rng, and
\* answers
Answer(r, rng) ==
    /\ requests[r].pc = "modelled"
    /\ requests' = [requests EXCEPT
                       ![r].pc = "responded",
                       ![r].response =
                           ResponseOf(requests[r].star_schema,
                                      engines[EngineOf(r)].star_schemas,
                                      requests[r].sql, hash_seed, rng)]
    /\ UNCHANGED << engines, pipeline_vars, generator_vars,
                 extraction_vars >>

ConcurrentNext ==
    \E r \in Requests :
        \/ \E sql \in RequestTexts : Arrive(r, sql)
        \/ StoreStatements(r)
        \/ Analyze(r)
        \/ GenerateStarSchema(r)
        \/ \E rng \in 0..(RandomStates - 1) : Answer(r, rng)

ConcurrentSpec == ConcurrentInit /\ [][ConcurrentNext]_vars

(***************************************************************************)
(* SQLAnalyzer.parse_sql on the text of SQL files, from the state in which *)
(* no call has been made (as ReuseInit).                                   *)
(***************************************************************************)
\* one call of parse_sql, on an SQL text of the given statements
ParseStatements(statements) ==
    /\ sql_statements' = statements
    /\ result_tables' = ExtractedTables(statements)
    /\ UNCHANGED << pipeline_vars, generator_vars, concurrent_vars >>

\* the SQL files are texts of up to MaxTables statements
ExtractNext ==
    \E n \in 0..MaxTables :
        \E statements \in [1..n -> Statements] : ParseStatements(statements)

ExtractSpec == ReuseInit /\ [][ExtractNext]_vars

(***************************************************************************)
(* AIDimensionClassifier._fallback_classification called on its own, from  *)
(* the state in which no call has been made (as ReuseInit).                *)
(***************************************************************************)
\* the first call of _fallback_classification on a classifier
FallbackClassification(columns) ==
    /\ classified = NotClassified
    /\ classified' = [called |-> TRUE, columns |-> columns,
                      result |-> fallback_classification(columns)]
    /\ UNCHANGED << enabled, analyzer_tables, pc, analysis, elapsed, exchange,
                    star_schema, generator_vars, concurrent_vars,
                    extraction_vars >>

FallbackNext ==
    LET \* the columns the strategy is called with
        RuleColumns ==
            { [name |-> "id_venda", data_type |-> "INT"],
              [name |-> "data_venda", data_type |-> "DATE"],
              [name |-> "data_cliente", data_type |-> "DATE"],
              [name |-> "nome_produto", data_type |-> "VARCHAR"],
              [name |-> "tipo_produto", data_type |-> "VARCHAR"],
              [name |-> "nome", data_type |-> "VARCHAR"],
              [name |-> "Nome", data_type |-> "VARCHAR"],
              [name |-> "tipo", data_type |-> "VARCHAR"],
              [name |-> "quantidade", data_type |-> "INT"],
              [name |-> "quantidade", data_type |-> "VARCHAR"],
              [name |-> "valor", data_type |-> "decimal"],
              [name |-> "valor", data_type |-> "NUMERIC"],
              [name |-> "preco_cliente", data_type |-> "FLOAT"],
              [name |-> "vendedor", data_type |-> "VARCHAR"],
              [name |-> "cidade", data_type |-> "VARCHAR"],
              [name |-> "bloco", data_type |-> "VARCHAR"],
              [name |-> "placa", data_type |-> "VARCHAR"],
              [name |-> "visita", data_type |-> "INT"],
              [name |-> "motivo", data_type |-> "TEXT"],
              [name |-> "sku", data_type |-> "VARCHAR"] }
    IN
    \E n \in 1..MaxRuleColumns :
        \E columns \in [1..n -> RuleColumns] : FallbackClassification(columns)

FallbackSpec == ReuseInit /\ [][FallbackNext]_vars

(***************************************************************************)
(* Properties.                                                             *)
(***************************************************************************)
\* create_dimensional_model returned a star schema
Produced == pc = "done" /\ star_schema.kind = "schema"

\* the star schema was built by _denormalize_single_table
SingleTable ==
    Produced /\ star_schema.metadata.modeling_approach = "denormalization"

\* the star schema was built by the multi-table branch
MultiTable ==
    Produced /\ star_schema.metadata.modeling_approach = "multi_table"

Range(seq) == { seq[i] : i \in 1..Len(seq) }

Count(seq, v) == Cardinality({ i \in 1..Len(seq) : seq[i] = v })

\* the classifier's HTTP exchange failed: the request raised, the answer
\* could not be parsed, or an entry of the array lacks a field or a number
AIFailed ==
    \/ exchange.kind \in RaisingKinds \cup UnparsableKinds
    \/ /\ exchange.kind = "array"
       /\ \E i \in 1..Len(exchange.items) :
             \/ RequiredFields \ DOMAIN exchange.items[i] # {}
             \/ ~exchange.items[i].confidence.numeric

\* C1: whenever the AI-delegated classification of a table fails (network
\* error, timeout, HTTP error status, unparsable payload, an entry without a
\* required field), classify_table_dimensions returns exactly the rule-based
\* classification of the table's columns, and the caller gets a schema, not
\* an error.
C1_FallbackOnFailure ==
    (pc = "done" /\ classified.called /\ AIFailed)
        => /\ classified.result = RuleBased[classified.columns]
           /\ star_schema.kind = "schema"

\* a two-entry answer whose first entry is complete and whose second entry
\* lacks a field was classified
C1_Witness ==
    /\ pc = "done" /\ classified.called
    /\ exchange.kind = "array" /\ Len(exchange.items) = 2
    /\ RequiredFields \subseteq DOMAIN exchange.items[1]
    /\ exchange.items[1].confidence.numeric
    /\ "reasoning" \notin DOMAIN exchange.items[2]
    /\ Len(classified.columns) = 2

\* C2: classify_table_dimensions returns exactly one classification per input
\* column: as many entries as columns, every column name exactly once.
C2_OnePerColumn ==
    (pc = "done" /\ classified.called)
        => /\ Len(classified.result) = Len(classified.columns)
           /\ \A i \in 1..Len(classified.columns) :
                 Cardinality({ j \in 1..Len(classified.result) :
                     classified.result[j].column_name =
                         classified.columns[i].name }) = 1

\* C3: the classifier's HTTP call is bounded by a timeout: a call that is
\* waiting for the service always returns, and a call that timed out returns
\* the rule-based classification and a star schema.
C3_TimeoutReturnsFallback ==
    /\ [](pc = "calling" => <>(pc = "done"))
    /\ [](exchange.kind = "timeout"
            => /\ pc = "done"
               /\ star_schema.kind = "schema"
               /\ classified.called
               /\ classified.result = RuleBased[classified.columns])

\* a call returned after the service stayed silent
C3_Witness ==
    /\ pc = "done" /\ exchange.kind = "timeout"
    /\ star_schema.kind = "schema"
    /\ Len(classified.result) > 0

\* C4: each dimension table's surrogate key appears exactly once in
\* fact_table.dimension_keys, on both paths.
C4_SurrogateKeysOnce ==
    Produced =>
        \A i \in 1..Len(star_schema.dimension_tables) :
            Count(star_schema.fact_table.dimension_keys,
                  star_schema.dimension_tables[i].surrogate_key) = 1

\* C5: no two dimension tables of a star schema have the same name, the
\* generated dim_date included.
C5_DistinctDimensionNames ==
    Produced =>
        \A i, j \in 1..Len(star_schema.dimension_tables) :
            star_schema.dimension_tables[i].name =
                star_schema.dimension_tables[j].name => i = j

\* C6: every star schema holds exactly one time dimension, and it is the
\* generated one (dim_date, date_sk, source 'generated', 13 attributes).
C6_OneGeneratedTimeDimension ==
    Produced =>
        /\ Cardinality({ i \in 1..Len(star_schema.dimension_tables) :
               is_time_dimension(star_schema.dimension_tables[i]) }) = 1
        /\ \A i \in 1..Len(star_schema.dimension_tables) :
               is_time_dimension(star_schema.dimension_tables[i])
                   => /\ star_schema.dimension_tables[i].name = "dim_date"
                      /\ star_schema.dimension_tables[i].surrogate_key = "date_sk"
                      /\ star_schema.dimension_tables[i].source_table = "generated"
                      /\ Len(star_schema.dimension_tables[i].attributes) = 13

\* C7: the natural key of every dimension table is one of its attributes.
C7_NaturalKeyIsAttribute ==
    Produced =>
        \A i \in 1..Len(star_schema.dimension_tables) :
            star_schema.dimension_tables[i].natural_key
                \in Range(star_schema.dimension_tables[i].attributes)

\* C8: the relationships are, dimension table by dimension table, one
\* many_to_one relationship from the fact table to the dimension whose
\* from_column and to_column both are the dimension's surrogate key.
C8_OneRelationshipPerDimension ==
    Produced =>
        /\ Len(star_schema.relationships) = Len(star_schema.dimension_tables)
        /\ \A i \in 1..Len(star_schema.dimension_tables) :
              LET r == star_schema.relationships[i]
                  d == star_schema.dimension_tables[i]
              IN  /\ r.relationship_type = "many_to_one"
                  /\ r.from_table = star_schema.fact_table.name
                  /\ r.to_table = d.name
                  /\ r.from_column = r.to_column
                  /\ r.to_column = d.surrogate_key

\* a multi-table schema with a source dimension and the generated one
C8_Witness ==
    /\ MultiTable
    /\ Len(star_schema.dimension_tables) >= 2
    /\ Len(star_schema.relationships) >= 2

\* the source is one table with the columns nome, data_venda, valor, quantidade
ScenarioA ==
    /\ Len(analysis.tables) = 1
    /\ [i \in 1..Len(analysis.tables[1].columns) |->
           analysis.tables[1].columns[i].name]
         = << "nome", "data_venda", "valor", "quantidade" >>

HasGeneratedTimeDimension ==
    \E i \in 1..Len(star_schema.dimension_tables) :
        star_schema.dimension_tables[i] = create_time_dimension

KeysMatchDimensions ==
    Len(star_schema.fact_table.dimension_keys)
        = Len(star_schema.dimension_tables)

\* C9 as stated: for a single table with columns nome, data_venda, valor,
\* quantidade the fact table's measures are exactly valor and quantidade and
\* the generated time dimension is present; every single-table schema has as
\* many dimension keys as dimension tables.
C9_ScenarioA_AsStated ==
    /\ (Produced /\ ScenarioA)
          => /\ Range(star_schema.fact_table.measures) = {"valor", "quantidade"}
             /\ Len(star_schema.fact_table.measures) = 2
             /\ HasGeneratedTimeDimension
    /\ SingleTable => KeysMatchDimensions

\* the rule-based strategy classified the table, and it takes valor for a
\* measure only when declared DECIMAL or FLOAT, quantidade only when declared
\* INT or DECIMAL
ScenarioARuleBased ==
    /\ ScenarioA
    /\ classified.called
    /\ classified.result = RuleBased[classified.columns]
    /\ AnyIn(analysis.tables[1].columns[3].data_type, {"DECIMAL", "FLOAT"})
    /\ AnyIn(analysis.tables[1].columns[4].data_type, {"INT", "DECIMAL"})

\* C9 amended: the measures are exactly valor and quantidade when the table
\* is classified by the rule-based strategy and valor is declared DECIMAL or
\* FLOAT and quantidade INT or DECIMAL; the generated time dimension is
\* present and the key count equals the dimension count in every
\* single-table schema.
C9_ScenarioA ==
    /\ (Produced /\ ScenarioARuleBased)
          => /\ Range(star_schema.fact_table.measures) = {"valor", "quantidade"}
             /\ Len(star_schema.fact_table.measures) = 2
    /\ (Produced /\ ScenarioA) => HasGeneratedTimeDimension
    /\ SingleTable => KeysMatchDimensions

\* Scenario A classified by the rule-based strategy after the service failed
C9_Witness ==
    /\ Produced /\ ScenarioARuleBased /\ enabled
    /\ star_schema.fact_table.measures = << "valor", "quantidade" >>
    /\ Len(star_schema.dimension_tables) = 2

\* C10: the fact table always has a measure; on the single-table path the
\* measures are ["visit_count"] when no column is classified fact_measure,
\* and otherwise the fact_measure columns in classification order.
C10_NeverMeasureless ==
    /\ Produced => star_schema.fact_table.measures # <<>>
    /\ SingleTable =>
          LET explicit == SelectSeq(classified.result,
                              LAMBDA c : c.dimensional_role = "fact_measure")
          IN  star_schema.fact_table.measures =
                  IF explicit = <<>> THEN << "visit_count" >>
                  ELSE [i \in 1..Len(explicit) |-> explicit[i].column_name]

\* Scenario B: a table none of whose columns is a measure
C10_Witness ==
    /\ SingleTable
    /\ Len(classified.result) > 0
    /\ \A i \in 1..Len(classified.result) :
          classified.result[i].dimensional_role # "fact_measure"
    /\ star_schema.fact_table.measures = << "visit_count" >>

\* the measure count _identify_best_fact_candidate compares, for a table
MeasureCount(table) == Len(SelectNames(table.columns, {"fact_measure"}))

\* the index of the earliest table with the greatest number of fact_measure
\* columns
MostMeasures(tables) ==
    CHOOSE i \in 1..Len(tables) :
        /\ \A j \in 1..Len(tables) :
              MeasureCount(tables[j]) <= MeasureCount(tables[i])
        /\ \A j \in 1..(i - 1) :
              MeasureCount(tables[j]) < MeasureCount(tables[i])

\* C11: on the multi-table path the fact table is built from the table with
\* the greatest number of fact_measure columns among all tables, the earliest
\* such table in encounter order when several tie.
C11_FactFromMostMeasures ==
    MultiTable =>
        star_schema.fact_table.source_table =
            analysis.tables[MostMeasures(analysis.tables)].name

\* Scenario C: of two tables the first has 2 measure columns and the second
\* has none; the first is the fact source.
C11_ScenarioC ==
    (MultiTable /\ Len(analysis.tables) = 2
                /\ MeasureCount(analysis.tables[1]) = 2
                /\ MeasureCount(analysis.tables[2]) = 0)
        => star_schema.fact_table.source_table = analysis.tables[1].name

\* the analysis parse_sql returns for an SQL text holding this table alone
AnalysisOfAlone(table_info) ==
    [tables |-> << table_info >>,
     dimensional_analysis |-> perform_dimensional_analysis(<< table_info >>)]

\* create_dimensional_model ended for two or more tables of which none has a
\* fact_measure column
NoMeasureAnywhere ==
    /\ pc = "done"
    /\ Len(analysis.tables) >= 2
    /\ \A i \in 1..Len(analysis.tables) : MeasureCount(analysis.tables[i]) = 0

\* C12: with two or more tables of which none has a fact_measure column, the
\* result is exactly the star schema the single-table path produces for the
\* first table (classified on the first table's columns alone); the other
\* tables contribute nothing.
C12_DegradesToFirstTable ==
    NoMeasureAnywhere =>
        /\ classified.called
        /\ classified.columns = analysis.tables[1].columns
        /\ star_schema = generate_star_schema(AnalysisOfAlone(analysis.tables[1]),
                                              classified.result)
        /\ star_schema.kind = "schema"
        /\ star_schema.fact_table.source_table = analysis.tables[1].name
        /\ \A i \in 1..Len(star_schema.dimension_tables) :
              star_schema.dimension_tables[i].source_table
                  \in {analysis.tables[1].name, "generated"}

\* two different tables without a measure were modelled
C12_Witness ==
    /\ NoMeasureAnywhere
    /\ analysis.tables[1].name # analysis.tables[2].name
    /\ analysis.tables[1].columns # analysis.tables[2].columns
    /\ SingleTable

\* the type the ordered rule list boolean, datetime, integer-class, decimal,
\* text, generic string gives an attribute name, first match wins
FirstMatchOf(name) ==
    LET attr_lower == Lower(name)
    IN  IF AnyIn(attr_lower, {"flag", "is_", "has_"}) THEN "boolean"
        ELSE IF AnyIn(attr_lower, {"date", "time", "created", "updated"})
        THEN "datetime"
        ELSE IF AnyIn(attr_lower, {"id", "key", "number"}) THEN "bigint"
        ELSE IF AnyIn(attr_lower, {"amount", "price", "cost", "value"})
        THEN "decimal"
        ELSE IF AnyIn(attr_lower, {"description", "comment", "note"})
        THEN "text"
        ELSE "string"

\* C15: attribute type inference evaluates its rules in the order boolean,
\* datetime, integer-class, decimal, text, generic string, first match wins:
\* every name that matches the boolean rule (flag / is_ / has_) infers
\* boolean even when it also contains a datetime or integer keyword.
C15_BooleanRuleFirst ==
    inferred # None =>
        /\ inferred = FirstMatchOf(attribute_name)
        /\ AnyIn(Lower(attribute_name), {"flag", "is_", "has_"})
              => inferred = "boolean"

\* C16: attribute type inference maps is_holiday to boolean, valor_total to
\* decimal and data_venda to datetime.
C16_NamedExamples ==
    inferred # None =>
        /\ attribute_name = "is_holiday" => inferred = "boolean"
        /\ attribute_name = "valor_total" => inferred = "decimal"
        /\ attribute_name = "data_venda" => inferred = "datetime"

\* the first and the second call both returned
BothReturned ==
    /\ Len(gen_results) = 2
    /\ ~gen_results[1].raised
    /\ ~gen_results[2].raised

\* C13: two calls of generate_complete_schema with an identical StarSchema,
\* identical flags and identical original SQL return identical DDL strings
\* and identical DML strings, in real-data mode and in synthetic mode.
C13_Deterministic ==
    BothReturned =>
        /\ gen_results[1].value.ddl_statements
               = gen_results[2].value.ddl_statements
        /\ gen_results[1].value.dml_statements
               = gen_results[2].value.dml_statements

\* C14: a call of the generator with a StarSchema that has zero dimension
\* tables ends in a generation error, and the caller then receives no DDL
\* statement and no DML statement at all.
C14_ZeroDimensionsIsError ==
    gen_args.star_schema.dimension_tables = <<>> =>
        \A call \in 1..Len(gen_results) : gen_results[call] = Raise

\* generate_sample_dml extracted real data from the original SQL
RealDataExtracted ==
    /\ gen_args.original_sql.given
    /\ extract_real_data_from_sql(gen_args.original_sql.inserts)
           \notin {Raise, Return(<<>>)}

\* the DML texts a call returned
DmlBlocks(call) ==
    { gen_results[call].value.dml_statements[i].value :
          i \in 1..Len(gen_results[call].value.dml_statements) }

\* C17: DML generation picks one mode per invocation: synthetic values are
\* emitted only when no real data was extracted from the original SQL, and
\* when real data was extracted no table's DML block holds a fabricated value
\* (one that no INSERT of the original SQL carries) next to real ones.
C17_OneModePerInvocation ==
    \A call \in 1..Len(gen_results) :
        ~gen_results[call].raised =>
            \A block \in DmlBlocks(call) :
                /\ Contains(block, "-- Sample data for") => ~RealDataExtracted
                /\ Contains(block, "-- Real data for")
                       => ~Contains(block, "'Unknown_")

\* what the INSERT statements of the inputs insert, read off their texts by
\* hand: the table, the column and the value of every literal but NULL
InsertedCells(insert) ==
    LET Cell(column, value) ==
            [table |-> insert.table, column |-> column, value |-> value]
    IN  CASE insert = InsertStatement("vendas",
                          "nome, data_venda, valor, quantidade",
                          "'Ana', '2024-01-05', 10.5, 2")
               -> { Cell("nome", "Ana"), Cell("data_venda", "2024-01-05"),
                    Cell("valor", "10.5"), Cell("quantidade", "2") }
          [] insert = InsertStatement("vendas",
                          "nome, data_venda, valor, quantidade",
                          "'Bia, Jr', '2024-01-05', n/a, 3")
               -> { Cell("nome", "Bia, Jr"), Cell("data_venda", "2024-01-05"),
                    Cell("valor", "n/a"), Cell("quantidade", "3") }
          [] insert = InsertStatement("t", "a, b", "'x', 'y'")
               -> { Cell("a", "x"), Cell("b", "y") }
          [] insert = InsertStatement("clientes", "Sobrenome, Nome",
                                      "'Silva', 'Ana'")
               -> { Cell("Sobrenome", "Silva"), Cell("Nome", "Ana") }
          [] insert = InsertStatement("t", "a, b", "NULL, NULL") -> {}
          [] insert = InsertStatement("t", "a", "'x'") -> { Cell("a", "x") }
          [] insert = InsertStatement("t", "b", "'y'") -> { Cell("b", "y") }

\* the values the original SQL inserts into a column of a table
Observed(table, column) ==
    LET inserts == gen_args.original_sql.inserts
    IN  { cell.value :
              cell \in { c \in UNION { InsertedCells(inserts[i]) :
                                           i \in 1..Len(inserts) } :
                             c.table = table /\ c.column = column } }

\* the texts between the occurrences of sep in s
RECURSIVE Pieces(_, _)
Pieces(s, sep) ==
    IF Contains(s, sep)
    THEN LET At(k) == SubSeq(s, k, k + Len(sep) - 1) = sep
             i == CHOOSE k \in 1..Len(s) : At(k) /\ \A j \in 1..(k - 1) : ~At(j)
         IN  << SubSeq(s, 1, i - 1) >>
             \o Pieces(SubSeq(s, i + Len(sep), Len(s)), sep)
    ELSE << s >>

\* the rows of attribute values of the INSERT statements of a dimension's
\* DML text
EmittedRows(block) ==
    LET lines == Pieces(block, "\n")
        Values(line) ==
            Pieces(Pieces(line, ") VALUES ('")[2], "', CURRENT_TIMESTAMP")[1]
    IN  { Pieces(Values(lines[i]), "', '") :
              i \in { k \in 1..Len(lines) :
                          Contains(lines[k], ") VALUES ('") } }

\* C18: in real-data mode every value emitted for a dimension attribute was
\* observed in the source column of that attribute, never in another column
\* of the same INSERT: with INSERT INTO t (a, b) VALUES ('x', 'y'), attribute
\* a of a dimension built from t gets x and never y.
C18_ValuesFromOwnColumn ==
    \A call \in 1..Len(gen_results) :
        (~gen_results[call].raised /\ RealDataExtracted) =>
            \A d \in 1..Len(gen_args.star_schema.dimension_tables) :
                LET dim_table == gen_args.star_schema.dimension_tables[d]
                    names == SelectSeq(dim_table.attributes,
                                 LAMBDA a : a # dim_table.surrogate_key)
                    block == DictGet(gen_results[call].value.dml_statements,
                                     "insert_" \o dim_table.name)
                IN  \A row \in EmittedRows(block) : \A j \in 1..Len(names) :
                        Observed(dim_table.source_table, names[j]) # {}
                            => row[j] \in Observed(dim_table.source_table,
                                                   names[j])

\* what create_dimensional_model(sql) returns on a freshly constructed
\* engine without API key
FreshResult(sql) ==
    LET fresh == parse_sql(StoreTables(<<>>, sql), sql)
    IN  generate_star_schema(
            fresh,
            IF TakesSingleTablePath(fresh)
            THEN classify_table_dimensions(FALSE, fresh.tables[1].columns,
                                           NoExchange)
            ELSE <<>>)

\* C20: after any sequence of earlier create_dimensional_model calls on an
\* engine, a call with SQL text S returns the same star schema as the same
\* call on a freshly constructed engine.
C20_NoStateAcrossCalls ==
    [][\A sql \in SqlTexts :
           CreateModelOnEngine(sql) => star_schema' = FreshResult(sql)]_vars

\* what the handler answers to a request with the SQL text sql that is
\* served alone, when the random generator is in state rng
Alone(sql, rng) ==
    LET analysis_alone == parse_sql(StoreTables(<<>>, sql.statements),
                                    sql.statements)
        own == ModelOf(analysis_alone)
    IN  IF own.kind = "error" THEN ErrorResponse
        ELSE ResponseOf(own, << own >>, sql, hash_seed, rng)

\* C19: two generate-dw-model requests handled concurrently share no mutable
\* pipeline state: under every interleaving, the star schema, DDL and DML
\* returned to each request are built only from that request's own SQL text,
\* the same as when the request runs alone.
C19_RequestsAreIsolated ==
    \A r \in Requests :
        requests[r].pc = "responded" =>
            \E rng \in 0..(RandomStates - 1) :
                requests[r].response = Alone(requests[r].sql, rng)

\* both requests were answered with a schema, for different SQL texts, and
\* each was being served while the other was
C19_Witness ==
    /\ \A r \in Requests :
           /\ requests[r].pc = "responded"
           /\ requests[r].response.kind = "ok"
           /\ requests[r].overlapped
    /\ requests[1].sql # requests[2].sql
    /\ engines[1].tables # engines[2].tables

\* the tables of the result that carry the name of statement i of the text
ResultTablesOf(i) ==
    { t \in 1..Len(result_tables) :
          result_tables[t].name = sql_statements[i].name }

\* the lines of statement i that are not table-level constraint clauses
ColumnLinesOf(i) ==
    { l \in 1..Len(sql_statements[i].lines) :
          ~sql_statements[i].lines[l].clause }

\* C21: for any CREATE TABLE whose column definitions are all simple and
\* non-nested, the number of column descriptors the extractor returns for
\* the table equals the number of comma-separated lines of the body that are
\* not table-level constraint clauses.
C21_DescriptorPerColumnLine ==
    \A i \in 1..Len(sql_statements) :
        (/\ sql_statements[i].name # None
         /\ \A l \in ColumnLinesOf(i) : ~sql_statements[i].lines[l].nested)
        => /\ ResultTablesOf(i) # {}
           /\ \A t \in ResultTablesOf(i) :
                  Len(result_tables[t].columns) = Cardinality(ColumnLinesOf(i))

\* the descriptors of table t of the result that carry the given name
DescriptorsNamed(t, name) ==
    { c \in 1..Len(result_tables[t].columns) :
          result_tables[t].columns[c].name = name }

\* C22: the body is split on top-level commas only: a column whose type has
\* several arguments, such as NUMERIC(10,2), with or without trailing
\* modifiers like NOT NULL, yields exactly one column descriptor carrying
\* that column's name and modifiers, and the text after the inner comma never
\* yields a descriptor of its own.
C22_TopLevelCommasOnly ==
    \A i \in 1..Len(sql_statements) :
        \A t \in ResultTablesOf(i) :
            /\ \A l \in ColumnLinesOf(i) :
                   sql_statements[i].lines[l].nested =>
                       /\ Cardinality(DescriptorsNamed(
                              t, sql_statements[i].lines[l].name)) = 1
                       /\ \A c \in DescriptorsNamed(
                                       t, sql_statements[i].lines[l].name) :
                              result_tables[t].columns[c].is_nullable
                                  = ~sql_statements[i].lines[l].not_null
            /\ \A c \in 1..Len(result_tables[t].columns) :
                   \E l \in ColumnLinesOf(i) :
                       sql_statements[i].lines[l].name
                           = result_tables[t].columns[c].name

\* C23: a line is skipped only when a constraint keyword is a top-level
\* clause; a column definition that carries PRIMARY KEY as a per-column
\* modifier (id INT PRIMARY KEY) is extracted as a column descriptor with its
\* primary-key flag set and its name listed in the table's primary keys.
C23_InlinePrimaryKeyExtracted ==
    \A i \in 1..Len(sql_statements) :
        \A t \in ResultTablesOf(i) :
            \A l \in ColumnLinesOf(i) :
                sql_statements[i].lines[l].primary_key =>
                    /\ \E c \in DescriptorsNamed(
                                    t, sql_statements[i].lines[l].name) :
                           result_tables[t].columns[c].is_primary_key
                    /\ \E k \in 1..Len(result_tables[t].primary_keys) :
                           result_tables[t].primary_keys[k]
                               = sql_statements[i].lines[l].name

\* C24: a CREATE TABLE statement from which no usable column is extracted
\* does not appear in the table list, and a CREATE TABLE with no table-name
\* match is skipped without aborting the extraction of the other statements.
C24_UnusableTablesAbsent ==
    /\ \A t \in 1..Len(result_tables) : result_tables[t].columns # <<>>
    /\ \A i \in 1..Len(sql_statements) :
           sql_statements[i].name # None => ResultTablesOf(i) # {}

\* the keyword groups of the rule-based strategy in their order: a group
\* matches a column whose lower-cased name holds one of its words, one of
\* the words of also where there are any, and whose type holds one of the
\* words of types where there are any
KeywordGroups ==
    LET Group(words, also, types, label, role, confidence) ==
            [words |-> words, also |-> also, types |-> types,
             label |-> label, role |-> role, confidence |-> confidence]
    IN  << Group({"id", "key", "codigo", "code"},
                 {"venda", "sale", "transacao", "transaction"}, {},
                 "transaction", "dimension_key", 85),
           Group({"data", "date", "horario", "time", "entrada", "saida"},
                 {}, {}, "time", "time_dimension", 90),
           Group({"produto", "product", "item", "servico", "service"},
                 {}, {}, "product", "dimension_attribute", 80),
           Group({"cliente", "customer", "nome", "name", "cpf", "email",
                  "telefone", "phone"},
                 {}, {}, "customer", "dimension_attribute", 80),
           Group({"categoria", "category", "tipo", "type", "classe", "class"},
                 {}, {}, "product", "dimension_attribute", 75),
           Group({"quantidade", "qty", "qtd", "volume"}, {},
                 {"INT", "DECIMAL"}, "transaction", "fact_measure", 85),
           Group({"valor", "preco", "price", "total", "amount", "custo",
                  "cost"}, {}, {"DECIMAL", "FLOAT"},
                 "transaction", "fact_measure", 90),
           Group({"vendedor", "seller", "funcionario", "employee", "usuario",
                  "user"}, {}, {}, "employee", "dimension_attribute", 75),
           Group({"regiao", "region", "estado", "state", "cidade", "city",
                  "local", "location"},
                 {}, {}, "location", "dimension_attribute", 80),
           Group({"bloco", "block", "apartamento", "apartment"},
                 {}, {}, "location", "dimension_attribute", 80),
           Group({"veiculo", "vehicle", "placa", "plate", "carro", "car"},
                 {}, {}, "vehicle", "dimension_attribute", 80),
           Group({"visita", "visit", "acesso", "access"},
                 {}, {}, "visit", "fact_measure", 75),
           Group({"motivo", "reason", "observacao", "observation", "comment"},
                 {}, {}, "activity", "dimension_attribute", 70) >>

\* the groups that match the column of the lower-cased name and the type
MatchingGroups(name, data_type) ==
    { g \in 1..Len(KeywordGroups) :
          /\ AnyIn(name, KeywordGroups[g].words)
          /\ KeywordGroups[g].also = {} \/ AnyIn(name, KeywordGroups[g].also)
          /\ KeywordGroups[g].types = {}
                 \/ AnyIn(MapChars(data_type, 1, TRUE), KeywordGroups[g].types) }

\* what the first matching group decides, or the group "other"
FirstGroup(name, data_type) ==
    IF MatchingGroups(name, data_type) = {}
    THEN [label |-> "other", role |-> "dimension_attribute", confidence |-> 60]
    ELSE LET g == CHOOSE g \in MatchingGroups(name, data_type) :
                      \A h \in MatchingGroups(name, data_type) : g <= h
         IN  [label |-> KeywordGroups[g].label, role |-> KeywordGroups[g].role,
              confidence |-> KeywordGroups[g].confidence]

\* what the rule-based strategy decided for column i of the call
Decided(i) ==
    [label |-> classified.result[i].dimension_type,
     role |-> classified.result[i].dimensional_role,
     confidence |-> classified.result[i].confidence]

\* C25: the rule-based strategy is a deterministic function of the
\* lower-cased column name and the declared type: it walks its keyword groups
\* in the fixed order and the first matching group alone decides group label,
\* role and confidence; a column matching no group gets group "other", role
\* "dimension_attribute", confidence 0.60 (60 hundredths).
C25_FirstMatchingGroupDecides ==
    classified.called =>
        /\ Len(classified.result) = Len(classified.columns)
        /\ \A i \in 1..Len(classified.columns) :
               /\ classified.result[i].column_name = classified.columns[i].name
               /\ Decided(i) = FirstGroup(Lower(classified.columns[i].name),
                                          classified.columns[i].data_type)
        /\ \A i, j \in 1..Len(classified.columns) :
               (/\ Lower(classified.columns[i].name)
                       = Lower(classified.columns[j].name)
                /\ classified.columns[i].data_type
                       = classified.columns[j].data_type)
               => Decided(i) = Decided(j)

\* a call classified a column that matches two groups, a column that matches
\* none, and no other
C25_Witness ==
    /\ classified.called
    /\ Len(classified.columns) = 2
    /\ Cardinality(MatchingGroups(Lower(classified.columns[1].name),
                                  classified.columns[1].data_type)) > 1
    /\ MatchingGroups(Lower(classified.columns[2].name),
                      classified.columns[2].data_type) = {}
    /\ Decided(2).label = "other"

\* the classified columns of the given role, as the loop of
\* _denormalize_single_table collects them
ColumnsOfRole(role) ==
    LET chosen == { k \in 1..Len(classified.result) :
                        classified.result[k].dimensional_role = role }
    IN  { classified.result[k].column_name : k \in chosen }

\* the dimension tables made of the dimension-group buckets
BucketDimensions ==
    { d \in 1..Len(star_schema.dimension_tables) :
          star_schema.dimension_tables[d].source_table # "generated" }

\* the number of places the column of classification i landed in: the time
\* columns, the measure columns, and the attribute list of each bucket
PlacesOf(i) ==
    LET name == classified.result[i].column_name
    IN  (IF name \in ColumnsOfRole("time_dimension") THEN 1 ELSE 0)
        + (IF name \in ColumnsOfRole("fact_measure")
           THEN Count(star_schema.fact_table.measures, name) ELSE 0)
        + Cardinality({ d \in BucketDimensions :
              Count(star_schema.dimension_tables[d].attributes, name) > 0 })

\* C26: the single-table path partitions the classified columns: every
\* classified column, whatever role of the closed role vocabulary it has,
\* lands in exactly one of the time columns, the measure columns, or the
\* attribute list of exactly one dimension-group bucket; no column is dropped
\* and none is counted twice.
C26_ColumnsPartitioned ==
    (SingleTable /\ classified.called) =>
        \A i \in 1..Len(classified.result) :
            (\A j \in 1..Len(classified.result) :
                 classified.result[j].column_name
                     = classified.result[i].column_name => j = i)
            => PlacesOf(i) = 1

\* the text of the fact table in the DDL list call k returned: it follows
\* the texts of the dimension tables
FactDdl(k) ==
    gen_results[k].value.ddl_statements[
        Len(gen_args.star_schema.dimension_tables) + 1]

\* the foreign-key columns of the fact table: the surrogate keys of the
\* dimension tables
ForeignKeyColumns ==
    [d \in 1..Len(gen_args.star_schema.dimension_tables) |->
        gen_args.star_schema.dimension_tables[d].surrogate_key]

\* the fact table text of call k has a column line for every dimension's
\* foreign key and for every measure
HasKeyAndMeasureColumns(k) ==
    /\ \A d \in 1..Len(ForeignKeyColumns) :
           Contains(FactDdl(k), "\n    " \o ForeignKeyColumns[d] \o " "
                                \o type_mappings.bigint \o " NOT NULL,\n")
    /\ \A m \in 1..Len(gen_args.star_schema.fact_table.measures) :
           \E type \in {type_mappings.bigint, type_mappings.decimal} :
               Contains(FactDdl(k),
                        "\n    " \o gen_args.star_schema.fact_table.measures[m]
                        \o " " \o type \o ",\n")

\* C27: the fact table DDL emitted by the generator has one foreign-key
\* column per dimension table, one column per measure, and a composite
\* primary key over all the dimension foreign-key columns.
C27_FactTableDdl ==
    \A k \in 1..Len(gen_results) :
        ~gen_results[k].raised =>
            /\ HasKeyAndMeasureColumns(k)
            /\ Contains(FactDdl(k),
                        "PRIMARY KEY (" \o Join(ForeignKeyColumns, ", ") \o ")")

\* the positions of the DDL list of call k whose text holds the given text
DdlPositions(k, text) ==
    { i \in 1..Len(gen_results[k].value.ddl_statements) :
          Contains(gen_results[k].value.ddl_statements[i], text) }

\* the last text of the DDL list of call k
LastDdl(k) ==
    gen_results[k].value.ddl_statements[
        Len(gen_results[k].value.ddl_statements)]

\* C28: in the ordered DDL list of generate_complete_schema, the CREATE TABLE
\* of every dimension table comes before the CREATE TABLE of the fact table,
\* the fact table comes before the view, and the list ends with exactly one
\* rollup view that joins the fact table to every dimension table and
\* aggregates every measure with SUM plus a row count.
C28_DdlOrder ==
    \A k \in 1..Len(gen_results) :
        ~gen_results[k].raised =>
            LET dims == gen_args.star_schema.dimension_tables
                fact == gen_args.star_schema.fact_table
                facts == DdlPositions(k, "CREATE TABLE " \o fact.name \o " (")
                views == DdlPositions(k, "CREATE VIEW ")
            IN  /\ facts # {}
                /\ \A d \in 1..Len(dims) :
                       LET tables == DdlPositions(k, "CREATE TABLE "
                                                     \o dims[d].name \o " (")
                       IN  /\ tables # {}
                           /\ \A i \in tables : \A j \in facts : i < j
                /\ views = { Len(gen_results[k].value.ddl_statements) }
                /\ \A j \in facts : \A v \in views : j < v
                /\ Contains(LastDdl(k), "FROM " \o fact.name \o " f\n")
                /\ \A d \in 1..Len(dims) :
                       Contains(LastDdl(k),
                                "\nLEFT JOIN " \o dims[d].name \o " ")
                /\ \A m \in 1..Len(fact.measures) :
                       Contains(LastDdl(k),
                                "SUM(f." \o fact.measures[m] \o ")")
                /\ Contains(LastDdl(k), "COUNT(*)")

\* a call returned the DDL of a star schema with two dimension tables and
\* two measures
C28_Witness ==
    /\ Len(gen_results) > 0
    /\ ~gen_results[1].raised
    /\ Len(gen_args.star_schema.dimension_tables) = 2
    /\ Len(gen_args.star_schema.fact_table.measures) = 2
    /\ Len(gen_results[1].value.ddl_statements) = 4

\* the lines of the DML text call k returned for the table that are INSERT
\* statements
InsertLines(k, table) ==
    LET lines == Pieces(DictGet(gen_results[k].value.dml_statements,
                                "insert_" \o table), "\n")
    IN  SelectSeq(lines, LAMBDA line : Contains(line, "INSERT INTO "))

\* the values of an INSERT line, in the order of its columns
InsertValues(line) == Pieces(Pieces(line, ") VALUES (")[2], ", ")

\* C29: referential integrity of the generated DML: in every fact-table
\* INSERT row, the value written for a dimension's foreign key is the
\* surrogate key of a row that the same invocation inserts into that
\* dimension: it lies between 1 and the number of INSERT rows emitted for
\* that dimension.
C29_ForeignKeysReferToRows ==
    \A k \in 1..Len(gen_results) :
        (~gen_results[k].raised /\ gen_results[k].value.dml_statements # <<>>)
        => LET dims == gen_args.star_schema.dimension_tables
               rows == InsertLines(k, gen_args.star_schema.fact_table.name)
           IN  \A r \in 1..Len(rows) : \A d \in 1..Len(dims) :
                   InsertValues(rows[r])[d]
                       \in { ToString(key) :
                                 key \in 1..Len(InsertLines(k, dims[d].name)) }

\* the values the original SQL inserts into tables other than table
ObservedElsewhere(table) ==
    LET inserts == gen_args.original_sql.inserts
    IN  { cell.value :
              cell \in { c \in UNION { InsertedCells(inserts[i]) :
                                           i \in 1..Len(inserts) } :
                             c.table # table } }

\* the original SQL inserts nothing into table
NothingObserved(table) ==
    \A i \in 1..Len(gen_args.original_sql.inserts) :
        \A cell \in InsertedCells(gen_args.original_sql.inserts[i]) :
            cell.table # table

\* C30: in real-data mode the values emitted for a dimension table come only
\* from the INSERT data of that dimension's own source table: a dimension
\* whose source table has no extracted data, and the generated time dimension
\* (source 'generated'), receive no value observed in any other table.
C30_ValuesFromOwnSourceTable ==
    \A call \in 1..Len(gen_results) :
        (~gen_results[call].raised /\ RealDataExtracted) =>
            \A d \in 1..Len(gen_args.star_schema.dimension_tables) :
                LET dim_table == gen_args.star_schema.dimension_tables[d]
                    block == DictGet(gen_results[call].value.dml_statements,
                                     "insert_" \o dim_table.name)
                IN  NothingObserved(dim_table.source_table) =>
                        \A row \in EmittedRows(block) :
                            \A j \in 1..Len(row) :
                                row[j] \notin
                                    ObservedElsewhere(dim_table.source_table)

====
